---- MODULE Spec2Model ----
(***************************************************************************)
(* Hedron microhypervisor: the synchronous IPC / exception-portal state    *)
(* machine (src/src/syscall.cpp, src/src/ec.cpp, src/src/ec_exc.cpp).      *)
(*                                                                         *)
(* One kernel-mode execution per CPU.  kpc[c] is the position of CPU c:    *)
(* "user" while the current EC executes user (or guest) code, otherwise    *)
(* the kernel function the CPU is about to execute.  Every handler is a    *)
(* pure operator from kernel state to kernel state (a record, see State),  *)
(* written statement by statement from the C++ source; an action applies   *)
(* one handler to the current state.                                       *)
(***************************************************************************)
EXTENDS Integers, Sequences, FiniteSets, TLC

VARIABLES
    cont,        \* Ec::cont       continuation of every EC ("nil" = nullptr)
    partner,     \* Ec::partner    EC this EC donates execution to
    rcap,        \* Ec::rcap       caller of this EC (reply capability)
    regs,        \* Ec::regs       saved register frame of every EC
    utcb,        \* Ec::utcb       UTCB contents of every EC
    hzd,         \* Ec::regs.hazard()  per-EC hazard bits
    cpu_hzd,     \* Cpu::hazard()  per-CPU hazard bits
    current,     \* Ec::current()  per CPU
    sc_current,  \* Sc::current()  per CPU
    ready,       \* per-CPU ready queue of SCs
    scq,         \* per-EC queue of SCs blocked on that EC (Ec is a Queue<Sc>)
    sc_refs,     \* reference count of every SC
    ctr_link,    \* Sc::ctr_link() per CPU
    ctr_loop,    \* Sc::ctr_loop() per CPU
    fpu,         \* per CPU: the EC whose FPU state is loaded
    sm_counter,  \* Sm::counter of the semaphore
    sm_queue,    \* Sm waiter queue (ECs)
    revoked,     \* selectors of the object space whose capability was revoked
    kpc,         \* per CPU: "user" or the kernel function about to run
    entries,     \* number of kernel entries (hypercalls, exceptions,
                 \* interrupts) taken so far
    outcome,     \* history: what became of the sys_call each EC is in
    at_call,     \* history: what each EC held when it entered its sys_call
    ipi,         \* CPUs with a reschedule IPI (VEC_IPI_RKE) pending
    hpt,         \* PDs whose host page table translates the page
    donor,       \* MDB donor link of the page's node in every PD
    tlb,         \* <<cpu, pd>>: the CPU's TLB caches the page for the PD
    stale,       \* Space_mem::stale_host_tlb: <<cpu, pd>> bits that are set
    gdt_ko,      \* CPUs that run with the kernel-only GDT loaded
    nmi,         \* CPUs with a shootdown NMI pending
    ack,         \* Counter::tlb_shootdown() per CPU (16 bit)
    shoot,       \* per CPU: the shootdown its rev_crd waits for
    owes,        \* history: <<cpu, pd>> acknowledged with the stale bit set
                 \* and not flushed since
    stale_use,   \* history: CPUs that translated through a stale entry
                 \* after the revocation was complete
    vector_info, \* Locked_vector_info::per_vector_info[cpu][vector]
    irt,         \* <<cpu, vector>>: the interrupt-remapping entry is set
    msr,         \* the MSRs user space may access through the kernel
    objs,        \* the capability at every selector that was free at boot
    ran,         \* history: the handlers the last system call or exception
                 \* of a CPU ran
    exc_regs,    \* per CPU: Exc_regs of the exception the kernel handles
    tr_limit,    \* CPUs whose TR segment limit a VM exit has re-set
    tree,        \* Space::tree of every space: the nodes of its MDB tree
    lock,        \* Space::lock of every space: the CPU that holds it
    mid,         \* per space: the CPU whose Mdb::insert or Mdb::remove is
                 \* under way in the tree
    sp,          \* per CPU: the Space operation it executes, or executed last
    calls        \* number of Space operations called so far

vars == <<cont, partner, rcap, regs, utcb, hzd, cpu_hzd, current, sc_current,
          ready, scq, sc_refs, ctr_link, ctr_loop, fpu, sm_counter, sm_queue, revoked,
          kpc, entries, outcome, at_call, ipi, hpt, donor, tlb, stale, gdt_ko,
          nmi, ack, shoot, owes, stale_use, vector_info, irt, msr,
          objs, ran, exc_regs, tr_limit, tree, lock, mid, sp, calls>>

----------------------------------------------------------------------------
(* Bounds of the model *)

\* the messages a user may store in its UTCB are 0..MaxMsg; message m
\* carries m typed items
MaxMsg == 1
\* largest value of the semaphore counter
MaxSmCount == 1
\* number of kernel entries (hypercalls, exceptions, interrupts) explored
MaxEntries == 4
\* number of calls explored in the call chain
MaxChainEntries == 4
MaxHzdEntries == 3
MaxTlbEntries == 3
MaxSysEntries == 3
MaxCreateEntries == 2
MaxDispatchEntries == 2

\* what Utcb::load_exc / load_vmx leave in the handler's UTCB: the faulting
\* EC's architectural state, a content no user message has (no typed items)
ExcMsg == MaxMsg + 1
\* Utcb::tcnt of a UTCB content
tcnt(m) == IF m = ExcMsg THEN 0 ELSE m

(* Program constants *)

\* help() gives up when ++Sc::ctr_loop() reaches this watermark
MAX_HELP == 3

EXC_DB == 1
EXC_GP == 13
EXC_PF == 14
EXC_MC == 18
EXC_STARTUP == 30
EXC_RECALL == 31

\* first address above user space, and the offset bits of a page address
USER_ADDR == 8
PAGE_MASK == 3
\* number of scheduling priorities
NUM_PRIORITIES == 2

\* number of interrupt vectors user space can configure
NUM_USER_VECTORS == 2
\* Acpi::get_waking_vector()
WakingVector == 1

----------------------------------------------------------------------------
(* The objects that exist.  A and B are global ECs with an SC each, S and  *)
(* T are local ECs on CPU 0, R is a local EC on CPU 1, I0/I1 the idle ECs. *)
(* G is a global EC on CPU 1; its scheduling context SC_G exists only in   *)
(* the specifications that start from HzdInit.                             *)

NIL == "null"

Cpus == {0, 1}
Ecs == {"A", "B", "S", "T", "R", "G", "I0", "I1"}
Scs == {"SC_A", "SC_B", "SC_G", "SC_I0", "SC_I1"}

EcCpu(e) == IF e \in {"R", "G", "I1"} THEN 1 ELSE 0
EcGlb(e) == e \in {"A", "B", "G", "I0", "I1"}
EcEvt(e) == CASE e = "S" -> 64 [] e = "G" -> 96 [] OTHER -> 32
is_idle_ec(e) == e \in {"I0", "I1"}
IdleEc(c) == IF c = 0 THEN "I0" ELSE "I1"

\* Protection domains: the root PD (A and the servers S, T, R), the PD of G
\* and the PD of B; the idle ECs belong to the kernel's PD
Pds == {"Pd_root", "Pd_c", "Pd_g"}
EcPd(e) == CASE e = "G" -> "Pd_c" [] e = "B" -> "Pd_g"
             [] e \in {"I0", "I1"} -> "Pd_kern" [] OTHER -> "Pd_root"
\* the CPUs on which the context of a PD is loaded at some time: those its
\* ECs are bound to
PdCpus(pd) == {EcCpu(e) : e \in {x \in Ecs : EcPd(x) = pd}}

ScEc(sc) == CASE sc = "SC_A" -> "A" [] sc = "SC_B" -> "B" [] sc = "SC_G" -> "G"
              [] sc = "SC_I0" -> "I0" [] OTHER -> "I1"
ScPrio(sc) == IF sc \in {"SC_I0", "SC_I1"} THEN 0 ELSE 1

\* Portals: (server EC, id, entry ip, message-transfer descriptor)
Pt_S == [ec |-> "S", id |-> 1, ip |-> 1, mtd |-> "GPR"]
Pt_T == [ec |-> "T", id |-> 2, ip |-> 2, mtd |-> "GPR_FPU"]
Pt_R == [ec |-> "R", id |-> 3, ip |-> 3, mtd |-> "GPR"]

NullCap == [type |-> "NULL"]
\* the argument registers of a frame that carries no object-creation call
NoArgs == [op |-> "NONE"]
\* selectors of the object space that hold the portals, the semaphore, the
\* ECs and the PDs; the capability at ec_s lacks every permission, the one
\* at ec_t has the permissions to bind portals and scheduling contexts, the
\* one at pd_g lacks PERM_OBJ_CREATION; nothing is stored at free and at
\* free2 after boot
Sel == [null |-> 0, pt_s |-> 1, pt_t |-> 2, pt_r |-> 3, sm |-> 4,
        ec_a |-> 5, ec_b |-> 6, ec_g |-> 7, ec_s |-> 8,
        pd_c |-> 9, pd_g |-> 10, kp |-> 11, free |-> 12, ec_t |-> 13,
        free2 |-> 14, pd_root |-> 15]

EcPerms == {"EC_CTRL", "CREATE_SC", "CREATE_PT"}

\* Space_obj::lookup: the capability stored at a selector of the object space
Space_obj_lookup(s, sel) ==
    CASE sel \in s.revoked -> NullCap
      [] sel = Sel.pt_s -> [type |-> "PT", pt |-> Pt_S]
      [] sel = Sel.pt_t -> [type |-> "PT", pt |-> Pt_T]
      [] sel = Sel.pt_r -> [type |-> "PT", pt |-> Pt_R]
      [] sel = Sel.sm -> [type |-> "SM"]
      [] sel = 32 + EXC_PF -> [type |-> "PT", pt |-> Pt_S]
      [] sel = 32 + EXC_STARTUP -> [type |-> "PT", pt |-> Pt_S]
      [] sel = 32 + EXC_RECALL -> [type |-> "PT", pt |-> Pt_T]
      [] sel = 32 + EXC_DB -> [type |-> "PT", pt |-> Pt_R]
      [] sel = 64 + EXC_PF -> [type |-> "PT", pt |-> Pt_T]
      [] sel = 64 + EXC_DB -> [type |-> "SM"]
      [] sel = 96 + EXC_STARTUP -> [type |-> "PT", pt |-> Pt_R]
      [] sel = 96 + EXC_RECALL -> [type |-> "PT", pt |-> Pt_R]
      [] sel = Sel.ec_a -> [type |-> "EC", ec |-> "A", perm |-> EcPerms]
      [] sel = Sel.ec_b -> [type |-> "EC", ec |-> "B", perm |-> EcPerms]
      [] sel = Sel.ec_g -> [type |-> "EC", ec |-> "G", perm |-> EcPerms]
      [] sel = Sel.ec_s -> [type |-> "EC", ec |-> "S", perm |-> {}]
      [] sel = Sel.ec_t -> [type |-> "EC", ec |-> "T",
                            perm |-> {"CREATE_SC", "CREATE_PT"}]
      [] sel = Sel.pd_c -> [type |-> "PD", pd |-> "Pd_c",
                            perm |-> {"OBJ_CREATION"}]
      [] sel = Sel.pd_g -> [type |-> "PD", pd |-> "Pd_g", perm |-> {}]
      [] sel = Sel.pd_root -> [type |-> "PD", pd |-> "Pd_root",
                               perm |-> {"OBJ_CREATION"}]
      [] sel = Sel.kp -> [type |-> "KP"]
      [] sel \in DOMAIN s.objs -> s.objs[sel]
      [] OTHER -> NullCap

----------------------------------------------------------------------------
(* The kernel state as one record, so that handlers compose like the code. *)

State ==
    [cont |-> cont, partner |-> partner, rcap |-> rcap, regs |-> regs,
     utcb |-> utcb, hzd |-> hzd, cpu_hzd |-> cpu_hzd, current |-> current,
     sc_current |-> sc_current, ready |-> ready, scq |-> scq,
     sc_refs |-> sc_refs, ctr_link |-> ctr_link, ctr_loop |-> ctr_loop,
     fpu |-> fpu, sm_counter |-> sm_counter, sm_queue |-> sm_queue,
     revoked |-> revoked, kpc |-> kpc, entries |-> entries,
     at_call |-> at_call, ipi |-> ipi, hpt |-> hpt, donor |-> donor,
     tlb |-> tlb, stale |-> stale, gdt_ko |-> gdt_ko, nmi |-> nmi, ack |-> ack,
     shoot |-> shoot, owes |-> owes, stale_use |-> stale_use,
     vector_info |-> vector_info, irt |-> irt, msr |-> msr, objs |-> objs,
     ran |-> ran, exc_regs |-> exc_regs, tr_limit |-> tr_limit]

\* what the step to state s does to the sys_call EC e is in: the call
\* transfers control ("called"), the server's reply or death clears the link
\* ("replied", "aborted"), or the reply rewinds the caller to sys_call
\* ("reissued"); forgotten when e enters user mode
Observe(e, s) ==
    LET c == EcCpu(e)
    IN  IF s.kpc[c] = "user" /\ kpc[c] # "user" /\ s.current[c] = e THEN "none"
        ELSE IF partner[e] = NIL /\ s.partner[e] # NIL
                /\ s.cont[e] = "ret_user_sysexit" THEN "called"
        ELSE IF partner[e] # NIL /\ s.partner[e] = NIL
                /\ cont[e] = "ret_user_sysexit"
        THEN IF s.cont[partner[e]] = "dead" THEN "aborted"
             ELSE IF s.cont[e] = "sys_call" THEN "reissued"
             ELSE "replied"
        ELSE outcome[e]

\* no sys_call on record
NoCall == [utcb |-> -1, cont |-> "none", rcap |-> NIL, echo |-> FALSE]

\* what the step to state s does to the record of the sys_call of EC e.  The
\* record is written at the hypercall entry; echo is set by a reply to the
\* waiting call whose message is the one the caller had sent; the record is
\* dropped by any other end of the call, by the delivery of a call that a
\* reply had re-issued, and when e enters user mode.
ObserveCall(e, s) ==
    LET c == EcCpu(e)
        a == s.at_call[e]
    IN  IF s.kpc[c] = "user" /\ kpc[c] # "user" /\ s.current[c] = e THEN NoCall
        ELSE IF partner[e] # NIL /\ s.partner[e] = NIL
        THEN IF /\ outcome[e] = "called" /\ a # NoCall
                /\ cont[e] = "ret_user_sysexit" /\ s.cont[e] = "ret_user_sysexit"
                /\ s.cont[partner[e]] = "nil" /\ s.utcb[partner[e]] = a.utcb
             THEN [a EXCEPT !.echo = TRUE]
             ELSE NoCall
        ELSE IF partner[e] = NIL /\ s.partner[e] # NIL /\ outcome[e] = "reissued"
        THEN NoCall
        ELSE a

\* the kernel objects after a handler has run
KernelBecomes(s) ==
    /\ cont' = s.cont /\ partner' = s.partner /\ rcap' = s.rcap
    /\ regs' = s.regs /\ utcb' = s.utcb /\ hzd' = s.hzd
    /\ cpu_hzd' = s.cpu_hzd /\ current' = s.current
    /\ sc_current' = s.sc_current /\ ready' = s.ready /\ scq' = s.scq
    /\ sc_refs' = s.sc_refs /\ ctr_link' = s.ctr_link
    /\ ctr_loop' = s.ctr_loop /\ fpu' = s.fpu
    /\ sm_counter' = s.sm_counter /\ sm_queue' = s.sm_queue /\ kpc' = s.kpc
    /\ entries' = s.entries /\ revoked' = s.revoked /\ ipi' = s.ipi
    /\ hpt' = s.hpt /\ donor' = s.donor /\ tlb' = s.tlb /\ stale' = s.stale
    /\ gdt_ko' = s.gdt_ko /\ nmi' = s.nmi /\ ack' = s.ack /\ shoot' = s.shoot
    /\ owes' = s.owes /\ stale_use' = s.stale_use
    /\ vector_info' = s.vector_info /\ irt' = s.irt /\ msr' = s.msr
    /\ objs' = s.objs /\ ran' = s.ran
    /\ exc_regs' = s.exc_regs /\ tr_limit' = s.tr_limit
    /\ outcome' = [e \in Ecs |-> Observe(e, s)]
    /\ at_call' = [e \in Ecs |-> ObserveCall(e, s)]

Becomes(s) ==
    /\ KernelBecomes(s)
    /\ tree' = tree /\ lock' = lock /\ mid' = mid /\ sp' = sp /\ calls' = calls

Goto(s, c, pc) == [s EXCEPT !.kpc[c] = pc]

\* the handler named name is entered on CPU c
enter(s, c, name) == [s EXCEPT !.ran[c] = Append(@, name)]

\* no exception is being handled
NoExc == [vec |-> -1, user |-> FALSE, rip |-> "none", cf |-> FALSE,
          err_u |-> FALSE, obj |-> FALSE, at |-> "none", tog |-> FALSE]

\* Exc_regs of an exception: vector, whether cs is a user segment, rip, the
\* carry flag of rfl, for #PF whether err has ERR_U and whether cr2 lies in
\* the OBJ space.  History: at is the rip the exception was raised at, tog
\* alternates from one exception to the next.
Exc_regs(vec, user, rip) ==
    [vec |-> vec, user |-> user, rip |-> rip, cf |-> FALSE,
     err_u |-> user, obj |-> FALSE, at |-> rip, tog |-> FALSE]

\* exception entry on CPU c: the frame r is what the handlers get
exc_entry(s, c, r) ==
    [s EXCEPT !.exc_regs[c] = [r EXCEPT !.tog = ~s.exc_regs[c].tog], !.ran[c] = <<>>]

InSeq(q, x) == \E i \in 1..Len(q) : q[i] = x
SeqWithout(q, x) == SelectSeq(q, LAMBDA y : y # x)

----------------------------------------------------------------------------
(* FPU, current EC *)

\* Ec::transfer_fpu: this->transfer_fpu(from_ec) on CPU c
transfer_fpu(s, c, this, from_ec) ==
    IF from_ec = this THEN s
    ELSE IF is_idle_ec(this) THEN s
    ELSE [s EXCEPT !.fpu[c] = this]

\* Hpt::flush on CPU c for the PD whose stale bit was found set: the bit is
\* cleared and the TLB of the CPU holds nothing of the PD any more
flush_stale(s, c, pd) ==
    [s EXCEPT !.stale = @ \ {<<c, pd>>}, !.tlb = @ \ {<<c, pd>>},
              !.owes = @ \ {<<c, pd>>}]

\* Pd::make_current: the CPU loads the context of the PD; a CPU that enters
\* a PD checks its stale bit and invalidates
Pd_make_current(s, c, pd) ==
    IF <<c, pd>> \in s.stale THEN flush_stale(s, c, pd) ELSE s

\* Ec::make_current
make_current(s, c, e) ==
    [Pd_make_current(transfer_fpu(s, c, e, s.current[c]), c, EcPd(e))
       EXCEPT !.current[c] = e]

\* Ec::return_to_user: make the EC current and jump to its continuation
return_to_user(s, c, e) ==
    Goto(make_current(s, c, e), c,
         IF s.cont[e] = "nil" THEN "null_jump" ELSE s.cont[e])

----------------------------------------------------------------------------
(* Partner linkage *)

set_partner(s, c, e, p) ==
    [s EXCEPT !.partner[e] = p, !.rcap[p] = e, !.ctr_link[c] = @ + 1]

\* Ec::clr_partner; its value, the old Sc::ctr_link(), is s.ctr_link[c].
\* ctr_link is an unsigned 32-bit word, held here by its two's-complement
\* reading: decrementing 0 gives the word 0xffffffff, read as -1.
clr_partner(s, c, e) ==
    [s EXCEPT !.rcap[s.partner[e]] = NIL, !.partner[e] = NIL,
              !.ctr_link[c] = @ - 1]

\* number of partner links from e, or -1 when the links form a cycle
RECURSIVE chain_len(_, _, _)
chain_len(p, e, fuel) ==
    IF p[e] = NIL THEN 0
    ELSE IF fuel = 0 THEN -1
    ELSE LET n == chain_len(p, p[e], fuel - 1) IN IF n < 0 THEN -1 ELSE n + 1

RECURSIVE chain_end(_, _, _)
chain_end(p, e, fuel) ==
    IF p[e] = NIL \/ fuel = 0 THEN e ELSE chain_end(p, p[e], fuel - 1)

\* Ec::blocked: queued on a semaphore, or without continuation
blocked(s, e) == InSeq(s.sm_queue, e) \/ s.cont[e] = "nil"

\* Ec::block_sc, called for a blocked EC: park the current SC on the EC's
\* queue and reschedule (Sc::schedule(true))
block_sc(s, c, e) ==
    IF ~blocked(s, e) THEN s
    ELSE Goto([s EXCEPT !.scq[e] = Append(@, s.sc_current[c])],
              c, "schedule_suspend")

\* activate that runs the EC itself instead of the end of its partner chain
activate_without_chain(s, c, e) ==
    LET s1 == [s EXCEPT !.ctr_link[c] = 0]
    IN  IF blocked(s1, e) THEN block_sc(s1, c, e)
        ELSE return_to_user(s1, c, e)

\* Ec::activate (syscall.cpp:60-72)
activate(s, c, e) ==
    LET n == chain_len(s.partner, e, Cardinality(Ecs))
        ec == chain_end(s.partner, e, Cardinality(Ecs))
        s1 == [s EXCEPT !.ctr_link[c] = n]
    IN  IF n < 0 THEN Goto(s, c, "activate_loop")
        ELSE IF blocked(s1, ec) THEN block_sc(s1, c, ec)
        ELSE return_to_user(s1, c, ec)

----------------------------------------------------------------------------
(* Scheduler *)

Max(S) == CHOOSE x \in S : \A y \in S : y <= x

\* head of the highest-priority non-empty ready list
pick(q) ==
    LET top == Max({ScPrio(q[i]) : i \in 1..Len(q)})
        i0 == CHOOSE i \in 1..Len(q) :
                 /\ ScPrio(q[i]) = top
                 /\ \A j \in 1..(i - 1) : ScPrio(q[j]) # top
    IN  q[i0]

\* Sc::ready_enqueue / remote_enqueue of sc on its CPU
ready_enqueue(s, sc) ==
    LET c == EcCpu(ScEc(sc))
    IN  [s EXCEPT !.ready[c] = Append(@, sc),
                  !.cpu_hzd[c] = IF ScPrio(sc) > ScPrio(s.sc_current[c])
                                 THEN @ \cup {"SCHED"} ELSE @]

\* Sc::schedule(suspend)
schedule(s, c, suspend) ==
    LET s1 == [s EXCEPT !.cpu_hzd[c] = @ \ {"SCHED"}]
        rdy == IF suspend THEN s1.ready[c]
               ELSE Append(s1.ready[c], s1.sc_current[c])
        sc == pick(rdy)
        s2 == [s1 EXCEPT !.ctr_loop[c] = 0, !.sc_current[c] = sc,
                         !.ready[c] = SeqWithout(rdy, sc)]
    IN  activate(s2, c, ScEc(sc))

\* Sc::last_ref
last_ref(s, sc) == s.sc_refs[sc] = 1

----------------------------------------------------------------------------
(* Return paths *)

\* The CPU leaves the kernel with the frame of the current EC.  The fields
\* of the frame that only carry a kernel entry's arguments (hypercall
\* selector and flags, exception vector, transfer descriptor) are dead from
\* here on: the next kernel entry writes them before the kernel reads them.
\* They are cleared, so that states differing only in them are one state.
enter_user(s, c) ==
    LET cur == s.current[c]
    IN  Goto([s EXCEPT !.regs[cur].sel = 0, !.regs[cur].flags = {},
                       !.regs[cur].dst_portal = 0, !.regs[cur].mtd = "NONE",
                       !.regs[cur].iret_frame = FALSE, !.regs[cur].res = 0,
                       !.regs[cur].args = NoArgs, !.ran[c] = <<>>,
                       !.exc_regs[c] = NoExc],
             c, "user")

\* Ec::do_early_nmi_work (ec_exc.cpp:101-114)
do_early_nmi_work(s, c) == [s EXCEPT !.ack[c] = (@ + 1) % 65536]

\* Ec::do_deferred_nmi_work (ec_exc.cpp:116-139)
do_deferred_nmi_work(s, c) ==
    LET pd == EcPd(s.current[c])
    IN  IF <<c, pd>> \in s.stale THEN flush_stale(s, c, pd) ELSE s

\* Ec::fixup_nmi_user_trap (ec_exc.cpp:90-99): Gdt::load
fixup_nmi_user_trap(s, c) == [s EXCEPT !.gdt_ko = @ \ {c}]

\* handle_exc_altstack that acknowledges only an NMI taken in user mode
handle_exc_altstack_ack_user(s, c, user) ==
    LET s0 == [s EXCEPT !.nmi = @ \ {c}]
        pd == EcPd(s.current[c])
    IN  IF user THEN do_deferred_nmi_work(do_early_nmi_work(s0, c), c)
        ELSE LET s2 == [s0 EXCEPT !.gdt_ko = @ \cup {c},
                                  !.owes = IF <<c, pd>> \in s.stale
                                           THEN @ \cup {<<c, pd>>} ELSE @]
             IN  IF s.kpc[c] \in {"idle_hlt", "hlt"} THEN Goto(s2, c, "idle")
                 ELSE s2

\* handle_exc_altstack that leaves the rip of the frame alone: the NMI
\* returns to the hlt of the idle loop, and the sti before it no longer
\* holds interrupts off
handle_exc_altstack_same_rip(s, c, user) ==
    LET s1 == do_early_nmi_work([s EXCEPT !.nmi = @ \ {c}], c)
        pd == EcPd(s.current[c])
    IN  IF user THEN do_deferred_nmi_work(s1, c)
        ELSE LET s2 == [s1 EXCEPT !.gdt_ko = @ \cup {c},
                                  !.owes = IF <<c, pd>> \in s.stale
                                           THEN @ \cup {<<c, pd>>} ELSE @]
             IN  IF s.kpc[c] = "idle_hlt" THEN Goto(s2, c, "hlt_open")
                 ELSE IF s.kpc[c] = "hlt" THEN Goto(s2, c, "idle")
                 ELSE s2

\* Ec::handle_exc_altstack for the NMI (ec_exc.cpp:218-290): user = the NMI
\* interrupted user mode.  It returns to what it interrupted.  With the rip
\* of the frame at the hlt of the idle loop (the sti is executed, the hlt is
\* not) the rip is moved behind the hlt; the NMI that wakes the halted CPU
\* finds the rip behind the hlt.  "hlt_open" = at the hlt with interrupts
\* enabled and no sti before it to hold them off.
handle_exc_altstack(s, c, user) ==
    LET s1 == do_early_nmi_work([s EXCEPT !.nmi = @ \ {c}], c)
        pd == EcPd(s.current[c])
    IN  IF user THEN do_deferred_nmi_work(s1, c)
        ELSE LET nmi_on_idle_hlt == s.kpc[c] = "idle_hlt"
                 s2 == [s1 EXCEPT !.gdt_ko = @ \cup {c},
                                  !.owes = IF <<c, pd>> \in s.stale
                                           THEN @ \cup {<<c, pd>>} ELSE @]
             IN  IF nmi_on_idle_hlt
                 THEN Goto([s2 EXCEPT !.ran[c] = <<"rip += 1">>], c, "idle")
                 ELSE IF s.kpc[c] = "hlt" THEN Goto(s2, c, "idle")
                 ELSE s2

\* Ec::maybe_handle_deferred_nmi_work (ec_exc.cpp:141-181) for the frame
\* s.exc_regs[c]; "returned" = it returned to handle_exc.  For a #GP on the iretq
\* of ret_user_iret the GDT is restored, the deferred work done, and
\* ret_user_iret called again.
maybe_handle_deferred_nmi_work(s, c) ==
    LET r == s.exc_regs[c]
        exc_on_iret_to_user == ~r.user /\ r.rip = "iret_to_user"
    IN  IF r.vec # EXC_GP THEN Goto(s, c, "returned")
        ELSE IF ~exc_on_iret_to_user THEN Goto(s, c, "returned")
        ELSE LET s1 == enter(fixup_nmi_user_trap(s, c), c,
                             "fixup_nmi_user_trap")
                 s2 == enter(do_deferred_nmi_work(s1, c), c,
                             "do_deferred_nmi_work")
             IN  Goto(enter(s2, c, "ret_user_iret"), c, "ret_user_iret")

\* the iretq of ret_user_iret.  With the kernel-only GDT loaded it raises
\* #GP, and Ec::handle_exc (ec_exc.cpp:183-216) begins with
\* maybe_handle_deferred_nmi_work, which does not return for this frame.
iret_to_user(s, c) ==
    IF c \in s.gdt_ko
    THEN maybe_handle_deferred_nmi_work(
             exc_entry(s, c, Exc_regs(EXC_GP, FALSE, "iret_to_user")), c)
    ELSE enter_user(s, c)

\* Ec::redirect_to_iret of the current EC: the frame a sysexit would have
\* returned with is rewritten so that an iret returns with it
redirect_to_iret(s, c) == [s EXCEPT !.regs[s.current[c]].iret_frame = TRUE]

\* handle_hazard that services the recall before the scheduling point
handle_hazard_recall_first(s, c, hz, func) ==
    LET cur == s.current[c]
        s1 == IF "RCU" \in hz THEN [s EXCEPT !.cpu_hzd[c] = @ \ {"RCU"}] ELSE s
        s2 == IF func = "ret_user_sysexit" THEN redirect_to_iret(s1, c) ELSE s1
    IN  IF "RECALL" \in hz
        THEN Goto([s2 EXCEPT !.hzd[cur] = @ \ {"RECALL"},
                             !.regs[cur].dst_portal = EXC_RECALL],
                  c, "send_msg_iret")
        ELSE IF "SCHED" \in hz
        THEN Goto([s1 EXCEPT !.cont[cur] = func], c, "schedule")
        ELSE IF "STEP" \in hz
        THEN Goto([s2 EXCEPT !.hzd[cur] = @ \ {"STEP"},
                             !.regs[cur].dst_portal = EXC_DB],
                  c, "send_msg_iret")
        ELSE Goto(s1, c, "returned")

\* handle_hazard that leaves HZD_RECALL set when it services the recall
handle_hazard_keeps_recall(s, c, hz, func) ==
    LET cur == s.current[c]
        s1 == IF "RCU" \in hz THEN [s EXCEPT !.cpu_hzd[c] = @ \ {"RCU"}] ELSE s
        s2 == IF func = "ret_user_sysexit" THEN redirect_to_iret(s1, c) ELSE s1
    IN  IF "SCHED" \in hz
        THEN Goto([s1 EXCEPT !.cont[cur] = func], c, "schedule")
        ELSE IF "RECALL" \in hz
        THEN Goto([s2 EXCEPT !.regs[cur].dst_portal = EXC_RECALL],
                  c, "send_msg_iret")
        ELSE IF "STEP" \in hz
        THEN Goto([s2 EXCEPT !.hzd[cur] = @ \ {"STEP"},
                             !.regs[cur].dst_portal = EXC_DB],
                  c, "send_msg_iret")
        ELSE Goto(s1, c, "returned")

\* Ec::handle_hazard (ec.cpp:88-117); "returned" = it returned to its caller
handle_hazard(s, c, hz, func) ==
    LET cur == s.current[c]
        s1 == IF "RCU" \in hz THEN [s EXCEPT !.cpu_hzd[c] = @ \ {"RCU"}] ELSE s
        s2 == IF func = "ret_user_sysexit" THEN redirect_to_iret(s1, c) ELSE s1
    IN  IF "SCHED" \in hz
        THEN Goto([s1 EXCEPT !.cont[cur] = func], c, "schedule")
        ELSE IF "RECALL" \in hz
        THEN Goto([s2 EXCEPT !.hzd[cur] = @ \ {"RECALL"},
                             !.regs[cur].dst_portal = EXC_RECALL],
                  c, "send_msg_iret")
        ELSE IF "STEP" \in hz
        THEN Goto([s2 EXCEPT !.hzd[cur] = @ \ {"STEP"},
                             !.regs[cur].dst_portal = EXC_DB],
                  c, "send_msg_iret")
        ELSE Goto(s1, c, "returned")

\* Ec::ret_user_sysexit (ec.cpp:119-155); its sysretq loads the user code
\* segment from fixed values and does not read the GDT
ret_user_sysexit(s, c) ==
    LET hz == (s.cpu_hzd[c] \cup s.hzd[s.current[c]])
                \cap {"RECALL", "STEP", "RCU", "DS_ES", "SCHED"}
        s1 == IF hz # {} THEN handle_hazard(s, c, hz, "ret_user_sysexit") ELSE s
    IN  IF hz # {} /\ s1.kpc[c] # "returned" THEN s1 ELSE enter_user(s1, c)

\* Ec::ret_user_iret (ec.cpp:181-209)
ret_user_iret(s, c) ==
    LET hz == (s.cpu_hzd[c] \cup s.hzd[s.current[c]])
                \cap {"RECALL", "STEP", "RCU", "SCHED"}
        s1 == IF hz # {} THEN handle_hazard(s, c, hz, "ret_user_iret") ELSE s
    IN  IF hz # {} /\ s1.kpc[c] # "returned" THEN s1 ELSE iret_to_user(s1, c)

\* Ec::idle (ec.cpp:211-221) up to the sti: the hazards are checked with
\* interrupts disabled.  "idle_hlt" = the sti is executed and the hlt is
\* next; interrupts stay off until the instruction after the sti has begun.
idle(s, c) ==
    LET hz == s.cpu_hzd[c] \cap {"RCU", "SCHED"}
        s1 == IF hz # {} THEN handle_hazard(s, c, hz, "idle") ELSE s
    IN  IF hz # {} /\ s1.kpc[c] # "returned" THEN s1
        ELSE Goto(s1, c, "idle_hlt")

\* the hlt of Ec::idle (ec.cpp:219): the CPU sleeps with interrupts enabled
hlt(s, c) ==
    IF s.kpc[c] \in {"idle_hlt", "hlt_open"} THEN Goto(s, c, "hlt") ELSE s

\* Ec::sys_finish (syscall.cpp:45-53)
sys_finish(s, c, status) ==
    Goto([s EXCEPT !.regs[s.current[c]].status = status], c, "ret_user_sysexit")

\* Ec::root_invoke (ec.cpp:223-288)
root_invoke(s, c) ==
    Goto([s EXCEPT !.regs[s.current[c]].pt = c, !.regs[s.current[c]].ip = 0],
         c, "ret_user_sysexit")

----------------------------------------------------------------------------
(* Semaphore *)

RECURSIVE release_scs(_, _)
release_scs(s, q) ==
    IF q = <<>> THEN s
    ELSE LET sc == Head(q)
         IN  release_scs(IF ~last_ref(s, sc) \/ s.partner[ScEc(sc)] # NIL
                         THEN ready_enqueue(s, sc) ELSE s,
                         Tail(q))

\* Ec::release: hand the SCs parked on the EC back to their ready queues
release(s, e) == release_scs([s EXCEPT !.scq[e] = <<>>], s.scq[e])

\* Sm::up
sm_up(s) ==
    IF s.sm_queue = <<>> THEN [s EXCEPT !.sm_counter = @ + 1]
    ELSE release([s EXCEPT !.sm_queue = Tail(@)], Head(s.sm_queue))

----------------------------------------------------------------------------
(* IPC engine *)

\* reply without the test for the last reference of the caller's SC
reply_no_last_ref(s, c, cv, sm) ==
    LET cur == s.current[c]
        s1 == [s EXCEPT !.cont[cur] = cv]
        ec == s1.rcap[cur]
        owner == ScEc(s1.sc_current[c])
    IN  IF EcGlb(cur) THEN Goto(s1, c, "schedule_suspend")
        ELSE IF ec = NIL THEN activate(s1, c, owner)
        ELSE IF s1.partner[ec] # cur THEN Goto(s1, c, "panic")
        ELSE
        LET clr == s1.ctr_link[c]
            s2 == clr_partner(s1, c, ec)
        IN  IF sm /\ s2.sm_counter = 0
            THEN LET s3 == [s2 EXCEPT !.sm_queue = Append(@, ec)]
                 IN  IF clr = 0 THEN Goto(s3, c, "schedule")
                     ELSE block_sc(s3, c, ec)
            ELSE LET s3 == IF sm THEN [s2 EXCEPT !.sm_counter = @ - 1] ELSE s2
                 IN  IF clr = 0 THEN activate(s3, c, owner)
                     ELSE return_to_user(s3, c, ec)

\* reply that leaves the partner linkage of the caller in place
reply_keeps_partner(s, c, cv, sm) ==
    LET cur == s.current[c]
        s1 == [s EXCEPT !.cont[cur] = cv]
        ec == s1.rcap[cur]
        owner == ScEc(s1.sc_current[c])
    IN  IF EcGlb(cur) THEN Goto(s1, c, "schedule_suspend")
        ELSE IF ec = NIL THEN activate(s1, c, owner)
        ELSE IF s1.partner[ec] # cur THEN Goto(s1, c, "panic")
        ELSE
        LET clr == s1.ctr_link[c]
            s2 == [s1 EXCEPT !.ctr_link[c] = @ - 1]
        IN  IF owner = ec /\ last_ref(s2, s2.sc_current[c])
            THEN Goto(s2, c, "schedule_suspend")
            ELSE IF sm /\ s2.sm_counter = 0
            THEN LET s3 == [s2 EXCEPT !.sm_queue = Append(@, ec)]
                 IN  IF clr = 0 THEN Goto(s3, c, "schedule")
                     ELSE block_sc(s3, c, ec)
            ELSE LET s3 == IF sm THEN [s2 EXCEPT !.sm_counter = @ - 1] ELSE s2
                 IN  IF clr = 0 THEN activate(s3, c, owner)
                     ELSE return_to_user(s3, c, ec)

\* Ec::reply (syscall.cpp:178-202); sm = a semaphore was named
reply(s, c, cv, sm) ==
    LET cur == s.current[c]
        s1 == [s EXCEPT !.cont[cur] = cv]
        ec == s1.rcap[cur]
        owner == ScEc(s1.sc_current[c])
    IN  IF EcGlb(cur) THEN Goto(s1, c, "schedule_suspend")
        ELSE IF ec = NIL THEN activate(s1, c, owner)
        ELSE IF s1.partner[ec] # cur THEN Goto(s1, c, "panic")
        ELSE
        LET clr == s1.ctr_link[c]
            s2 == clr_partner(s1, c, ec)
        IN  IF owner = ec /\ last_ref(s2, s2.sc_current[c])
            THEN Goto(s2, c, "schedule_suspend")
            ELSE IF sm /\ s2.sm_counter = 0
            THEN \* Sm::dn(false, 0, ec, clr) with the counter at zero
                 LET s3 == [s2 EXCEPT !.sm_queue = Append(@, ec)]
                 IN  IF clr = 0 THEN Goto(s3, c, "schedule")
                     ELSE block_sc(s3, c, ec)
            ELSE LET s3 == IF sm THEN [s2 EXCEPT !.sm_counter = @ - 1] ELSE s2
                 IN  IF clr = 0 THEN activate(s3, c, owner)
                     ELSE return_to_user(s3, c, ec)

\* die that hands COM_ABT to every caller, whatever its continuation
die_always_abort(s, c) ==
    LET ec == s.rcap[s.current[c]]
        s1 == IF ec # NIL
              THEN [s EXCEPT !.cont[ec] = "sys_finish_COM_ABT"]
              ELSE s
    IN  reply(s1, c, "dead", FALSE)

\* die that does not tell the caller: its continuation is left as it is
die_silent(s, c) == reply(s, c, "dead", FALSE)

\* Ec::die (ec.cpp:308-320)
die(s, c) ==
    LET ec == s.rcap[s.current[c]]
        s1 == IF ec # NIL
              THEN [s EXCEPT !.cont[ec] = IF @ = "ret_user_sysexit"
                                          THEN "sys_finish_COM_ABT" ELSE "dead"]
              ELSE s
    IN  reply(s1, c, "dead", FALSE)

\* Ec::help: the current EC donates the CPU to the partner chain of the busy
\* EC ec and will execute cname again; when the help counter reaches the
\* watermark MAX_HELP, or ec is dead, help returns to its caller
\* ("returned")
help(s, c, ec, cname) ==
    IF s.cont[ec] # "dead"
    THEN LET s1 == [s EXCEPT !.cont[s.current[c]] = cname,
                             !.ctr_loop[c] = @ + 1]
         IN  IF s1.ctr_loop[c] < MAX_HELP THEN activate(s1, c, ec)
             ELSE Goto(s1, c, "returned")
    ELSE Goto(s, c, "returned")

\* send_msg that does not store the portal's transfer descriptor
send_msg_without_mtd(s, c, C) ==
    LET cur == s.current[c]
        cap == Space_obj_lookup(s, EcEvt(cur) + s.regs[cur].dst_portal)
    IN  IF cap.type # "PT" THEN die(s, c)
        ELSE
        LET pt == cap.pt
            ec == pt.ec
        IN  IF EcCpu(cur) # EcCpu(ec) THEN die(s, c)
            ELSE IF s.cont[ec] = "nil"
            THEN LET s1 == [s EXCEPT !.cont[cur] = "ret_user_" \o C]
                     s2 == set_partner(s1, c, cur, ec)
                     s3 == [s2 EXCEPT !.cont[ec] = "recv_kern",
                                      !.regs[ec].pt = pt.id,
                                      !.regs[ec].ip = pt.ip]
                 IN  return_to_user(s3, c, ec)
            ELSE LET h == help(s, c, ec, "send_msg_" \o C)
                 IN  IF h.kpc[c] = "returned" THEN die(h, c) ELSE h

\* Ec::send_msg<C> (syscall.cpp:90-118); C = "iret" for send_msg<ret_user_iret>
send_msg(s, c, C) ==
    LET cur == s.current[c]
        cap == Space_obj_lookup(s, EcEvt(cur) + s.regs[cur].dst_portal)
    IN  IF cap.type # "PT" THEN die(s, c)
        ELSE
        LET pt == cap.pt
            ec == pt.ec
        IN  IF EcCpu(cur) # EcCpu(ec) THEN die(s, c)
            ELSE IF s.cont[ec] = "nil"
            THEN LET s1 == [s EXCEPT !.cont[cur] = "ret_user_" \o C]
                     s2 == set_partner(s1, c, cur, ec)
                     s3 == [s2 EXCEPT !.regs[cur].mtd = pt.mtd,
                                      !.cont[ec] = "recv_kern",
                                      !.regs[ec].pt = pt.id,
                                      !.regs[ec].ip = pt.ip]
                 IN  return_to_user(s3, c, ec)
            ELSE LET h == help(s, c, ec, "send_msg_" \o C)
                 IN  IF h.kpc[c] = "returned" THEN die(h, c) ELSE h

\* the fixup table FIXUP_S..FIXUP_E: pairs of the address of an instruction
\* that may fault and the address to go on from.  The rdmsr of
\* Msr::user_read has an entry, the iretq of ret_user_iret has none.
FIXUP == {<<"user_read", "user_read_fixup">>}

\* Ec::fixup (ec.cpp:290-306) for the frame s.exc_regs[c]; "returned" = true,
\* "break" = false
fixup(s, c) ==
    LET r == s.exc_regs[c]
    IN  IF \E p \in FIXUP : p[1] = r.rip
        THEN LET p == CHOOSE p \in FIXUP : p[1] = r.rip
             IN  Goto([enter(s, c, "fixup") EXCEPT !.exc_regs[c].cf = TRUE,
                                                   !.exc_regs[c].rip = p[2]],
                      c, "returned")
        ELSE Goto(s, c, "break")

\* the variant of handle_exc_gp that looks at the TR hazard before the fixup
\* table
handle_exc_gp_tr_first(s, c) ==
    IF "TR" \in s.cpu_hzd[c]
    THEN Goto([enter(s, c, "Tss::load") EXCEPT !.cpu_hzd[c] = @ \ {"TR"},
                                               !.tr_limit = @ \ {c}],
              c, "returned")
    ELSE fixup(s, c)

\* Ec::handle_exc_gp (ec_exc.cpp:55-72); "returned" = true, "break" = false
handle_exc_gp(s, c) ==
    LET s1 == fixup(s, c)
    IN  IF s1.kpc[c] = "returned" THEN s1
        ELSE IF "TR" \in s.cpu_hzd[c]
        THEN Goto([enter(s, c, "Tss::load") EXCEPT
                      !.cpu_hzd[c] = @ \ {"TR"}, !.tr_limit = @ \ {c}],
                  c, "returned")
        ELSE Goto(s, c, "break")

\* Ec::handle_exc_pf (ec_exc.cpp:74-88); "returned" = true, "break" = false
handle_exc_pf(s, c) ==
    LET r == s.exc_regs[c]
    IN  IF r.err_u THEN Goto(s, c, "break")
        ELSE IF r.obj
        THEN Goto(enter(s, c, "Space_obj::page_fault"), c, "returned")
        ELSE die(enter(s, c, "die"), c)

\* Ec::handle_exc (ec_exc.cpp:183-216) for the frame s.exc_regs[c]; "returned" =
\* it returned to the exception entry, which resumes at the frame's rip
handle_exc(s, c) ==
    LET r == s.exc_regs[c]
        s1 == maybe_handle_deferred_nmi_work(s, c)
    IN  IF s1.kpc[c] # "returned" THEN s1
        ELSE LET s2 == CASE r.vec = EXC_GP -> handle_exc_gp(s1, c)
                         [] r.vec = EXC_PF -> handle_exc_pf(s1, c)
                         [] r.vec = EXC_MC ->
                               Goto(enter(s1, c, "Mca::vector"), c, "break")
                         [] OTHER -> Goto(s1, c, "break")
             IN  IF s2.kpc[c] # "break" THEN s2
                 ELSE IF r.user
                 THEN send_msg(enter(s2, c, "send_msg"), c, "iret")
                 ELSE die(enter(s2, c, "die"), c)

\* sys_call with the caller left unlinked: set_partner is skipped
sys_call_unlinked(s, c) ==
    LET cur == s.current[c]
        cap == Space_obj_lookup(s, s.regs[cur].sel)
    IN  IF cap.type # "PT" THEN sys_finish(s, c, "BAD_CAP")
        ELSE
        LET pt == cap.pt
            ec == pt.ec
        IN  IF EcCpu(cur) # EcCpu(ec) THEN sys_finish(s, c, "BAD_CPU")
            ELSE IF s.cont[ec] = "nil"
            THEN LET s1 == [s EXCEPT !.cont[cur] = "ret_user_sysexit"]
                     s3 == [s1 EXCEPT !.cont[ec] = "recv_user",
                                      !.regs[ec].pt = pt.id,
                                      !.regs[ec].ip = pt.ip]
                 IN  return_to_user(s3, c, ec)
            ELSE IF "DISABLE_BLOCKING" \notin s.regs[cur].flags
            THEN LET h == help(s, c, ec, "sys_call")
                 IN  IF h.kpc[c] = "returned" THEN sys_finish(h, c, "COM_TIM")
                     ELSE h
            ELSE sys_finish(s, c, "COM_TIM")

\* sys_call without the check of the server's CPU
sys_call_any_cpu(s, c) ==
    LET cur == s.current[c]
        cap == Space_obj_lookup(s, s.regs[cur].sel)
    IN  IF cap.type # "PT" THEN sys_finish(s, c, "BAD_CAP")
        ELSE
        LET pt == cap.pt
            ec == pt.ec
        IN  IF s.cont[ec] = "nil"
            THEN LET s1 == [s EXCEPT !.cont[cur] = "ret_user_sysexit"]
                     s2 == set_partner(s1, c, cur, ec)
                     s3 == [s2 EXCEPT !.cont[ec] = "recv_user",
                                      !.regs[ec].pt = pt.id,
                                      !.regs[ec].ip = pt.ip]
                 IN  return_to_user(s3, c, ec)
            ELSE IF "DISABLE_BLOCKING" \notin s.regs[cur].flags
            THEN LET h == help(s, c, ec, "sys_call")
                 IN  IF h.kpc[c] = "returned" THEN sys_finish(h, c, "COM_TIM")
                     ELSE h
            ELSE sys_finish(s, c, "COM_TIM")

\* sys_call that helps a busy server whatever the flags say
sys_call_always_helps(s, c) ==
    LET cur == s.current[c]
        cap == Space_obj_lookup(s, s.regs[cur].sel)
    IN  IF cap.type # "PT" THEN sys_finish(s, c, "BAD_CAP")
        ELSE
        LET pt == cap.pt
            ec == pt.ec
        IN  IF EcCpu(cur) # EcCpu(ec) THEN sys_finish(s, c, "BAD_CPU")
            ELSE IF s.cont[ec] = "nil"
            THEN LET s1 == [s EXCEPT !.cont[cur] = "ret_user_sysexit"]
                     s2 == set_partner(s1, c, cur, ec)
                     s3 == [s2 EXCEPT !.cont[ec] = "recv_user",
                                      !.regs[ec].pt = pt.id,
                                      !.regs[ec].ip = pt.ip]
                 IN  return_to_user(s3, c, ec)
            ELSE LET h == help(s, c, ec, "sys_call")
                 IN  IF h.kpc[c] = "returned" THEN sys_finish(h, c, "COM_TIM")
                     ELSE h

\* sys_call that kills the caller when help returns, as send_msg does
sys_call_dies_after_help(s, c) ==
    LET cur == s.current[c]
        cap == Space_obj_lookup(s, s.regs[cur].sel)
    IN  IF cap.type # "PT" THEN sys_finish(s, c, "BAD_CAP")
        ELSE
        LET pt == cap.pt
            ec == pt.ec
        IN  IF EcCpu(cur) # EcCpu(ec) THEN sys_finish(s, c, "BAD_CPU")
            ELSE IF s.cont[ec] = "nil"
            THEN LET s1 == [s EXCEPT !.cont[cur] = "ret_user_sysexit"]
                     s2 == set_partner(s1, c, cur, ec)
                     s3 == [s2 EXCEPT !.cont[ec] = "recv_user",
                                      !.regs[ec].pt = pt.id,
                                      !.regs[ec].ip = pt.ip]
                 IN  return_to_user(s3, c, ec)
            ELSE IF "DISABLE_BLOCKING" \notin s.regs[cur].flags
            THEN LET h == help(s, c, ec, "sys_call")
                 IN  IF h.kpc[c] = "returned" THEN die(h, c) ELSE h
            ELSE sys_finish(s, c, "COM_TIM")

\* sys_call that links the caller to a server that is servicing a call
sys_call_links_busy(s, c) ==
    LET cur == s.current[c]
        cap == Space_obj_lookup(s, s.regs[cur].sel)
    IN  IF cap.type # "PT" THEN sys_finish(s, c, "BAD_CAP")
        ELSE
        LET pt == cap.pt
            ec == pt.ec
        IN  IF EcCpu(cur) # EcCpu(ec) THEN sys_finish(s, c, "BAD_CPU")
            ELSE IF s.cont[ec] = "nil" \/ s.rcap[ec] # NIL
            THEN LET s1 == [s EXCEPT !.cont[cur] = "ret_user_sysexit"]
                     s2 == set_partner(s1, c, cur, ec)
                     s3 == [s2 EXCEPT !.cont[ec] = "recv_user",
                                      !.regs[ec].pt = pt.id,
                                      !.regs[ec].ip = pt.ip]
                 IN  return_to_user(s3, c, ec)
            ELSE IF "DISABLE_BLOCKING" \notin s.regs[cur].flags
            THEN LET h == help(s, c, ec, "sys_call")
                 IN  IF h.kpc[c] = "returned" THEN sys_finish(h, c, "COM_TIM")
                     ELSE h
            ELSE sys_finish(s, c, "COM_TIM")

\* Ec::sys_call (syscall.cpp:120-147); the arguments are in the frame
sys_call(s, c) ==
    LET cur == s.current[c]
        cap == Space_obj_lookup(s, s.regs[cur].sel)
    IN  IF cap.type # "PT" THEN sys_finish(s, c, "BAD_CAP")
        ELSE
        LET pt == cap.pt
            ec == pt.ec
        IN  IF EcCpu(cur) # EcCpu(ec) THEN sys_finish(s, c, "BAD_CPU")
            ELSE IF s.cont[ec] = "nil"
            THEN LET s1 == [s EXCEPT !.cont[cur] = "ret_user_sysexit"]
                     s2 == set_partner(s1, c, cur, ec)
                     s3 == [s2 EXCEPT !.cont[ec] = "recv_user",
                                      !.regs[ec].pt = pt.id,
                                      !.regs[ec].ip = pt.ip]
                 IN  return_to_user(s3, c, ec)
            ELSE IF "DISABLE_BLOCKING" \notin s.regs[cur].flags
            THEN LET h == help(s, c, ec, "sys_call")
                 IN  IF h.kpc[c] = "returned" THEN sys_finish(h, c, "COM_TIM")
                     ELSE h
            ELSE sys_finish(s, c, "COM_TIM")

\* Ec::delegate<C> followed by unwrap: d is the result of Pd::xfer_items
delegate(s, c, d) ==
    IF s.rcap[s.current[c]] = NIL THEN Goto(s, c, "panic")
    ELSE IF d # "OK" THEN Goto(s, c, "panic")
    ELSE s

\* Ec::recv_kern (syscall.cpp:149-164)
recv_kern(s, c) ==
    LET cur == s.current[c]
        ec == s.rcap[cur]
    IN  IF ec = NIL THEN Goto(s, c, "null_deref")
        ELSE
        LET exc == s.cont[ec] \in {"ret_user_iret", "ret_user_vmresume"}
            s1 == IF exc THEN [s EXCEPT !.utcb[cur] = ExcMsg]
                  ELSE s
            f == exc /\ s.regs[ec].mtd = "GPR_FPU"
            s2 == IF f THEN transfer_fpu(s1, c, ec, cur) ELSE s1
        IN  Goto(s2, c, "ret_user_sysexit")

\* recv_user that does not save the caller's UTCB into the server's
recv_user_without_save(s, c, d) ==
    LET cur == s.current[c]
        ec == s.rcap[cur]
    IN  IF ec = NIL THEN Goto(s, c, "null_deref")
        ELSE
        LET s2 == IF tcnt(s.utcb[ec]) > 0 THEN delegate(s, c, d) ELSE s
        IN  IF s2.kpc[c] = "panic" THEN s2 ELSE Goto(s2, c, "ret_user_sysexit")

\* Ec::recv_user (syscall.cpp:166-176)
recv_user(s, c, d) ==
    LET cur == s.current[c]
        ec == s.rcap[cur]
    IN  IF ec = NIL THEN Goto(s, c, "null_deref")
        ELSE
        LET s1 == [s EXCEPT !.utcb[cur] = s.utcb[ec]]
            s2 == IF tcnt(s1.utcb[ec]) > 0 THEN delegate(s1, c, d) ELSE s1
        IN  IF s2.kpc[c] = "panic" THEN s2 ELSE Goto(s2, c, "ret_user_sysexit")

\* sys_reply that delegates the typed items before it looks for a caller
sys_reply_delegates_first(s, c, smsel, d, f) ==
    LET cur == s.current[c]
        ec == s.rcap[cur]
        s0 == IF tcnt(s.utcb[cur]) > 0 THEN delegate(s, c, d) ELSE s
    IN  IF s0.kpc[c] = "panic" THEN s0
        ELSE IF ec # NIL
        THEN LET sm == smsel # 0 /\ Space_obj_lookup(s, smsel).type = "SM"
                 s1 == IF sm /\ s.cont[ec] = "ret_user_sysexit"
                       THEN [s EXCEPT !.cont[ec] = "sys_call"] ELSE s
                 s3 == IF s1.cont[ec] = "ret_user_sysexit"
                       THEN [s1 EXCEPT !.utcb[ec] = s1.utcb[cur]] ELSE s1
                 fp == s1.cont[ec] \in {"ret_user_iret", "ret_user_vmresume"} /\ f
                 s4 == IF fp THEN transfer_fpu(s3, c, cur, ec) ELSE s3
             IN  reply(s4, c, "nil", sm)
        ELSE reply(s, c, "nil", FALSE)

\* Ec::sys_reply (syscall.cpp:204-238); smsel = r->sm(), d = result of the
\* item transfer, f = the reply's message-transfer descriptor asks for the FPU
sys_reply(s, c, smsel, d, f) ==
    LET cur == s.current[c]
        ec == s.rcap[cur]
    IN  IF ec # NIL
        THEN LET sm == smsel # 0 /\ Space_obj_lookup(s, smsel).type = "SM"
                 s1 == IF sm /\ s.cont[ec] = "ret_user_sysexit"
                       THEN [s EXCEPT !.cont[ec] = "sys_call"] ELSE s
                 s2 == IF tcnt(s1.utcb[cur]) > 0 THEN delegate(s1, c, d) ELSE s1
                 s3 == IF s2.cont[ec] = "ret_user_sysexit"
                       THEN [s2 EXCEPT !.utcb[ec] = s2.utcb[cur]] ELSE s2
                 fp == s2.cont[ec] \in {"ret_user_iret", "ret_user_vmresume"} /\ f
                 s4 == IF fp THEN transfer_fpu(s3, c, cur, ec) ELSE s3
             IN  IF s2.kpc[c] = "panic" THEN s2 ELSE reply(s4, c, "nil", sm)
        ELSE reply(s, c, "nil", FALSE)

----------------------------------------------------------------------------
(* EC control *)

\* capability_cast<Ec>(cap, Ec::PERM_EC_CTRL): the EC, NIL without one
cast_ec(cap) ==
    IF cap.type = "EC" /\ "EC_CTRL" \in cap.perm THEN cap.ec ELSE NIL

\* Ec::remote(cpu): the EC that is current on that CPU
remote(s, cpu) == s.current[cpu]

\* Lapic::send_ipi(cpu, VEC_IPI_RKE)
send_ipi(s, cpu) == [s EXCEPT !.ipi = @ \cup {cpu}]

\* sys_ec_ctrl that sends the IPI to every target bound to another CPU
sys_ec_ctrl_ipi_if_bound(s, c, op, sel) ==
    IF op = "RECALL"
    THEN LET ec == cast_ec(Space_obj_lookup(s, sel))
         IN  IF ec = NIL THEN sys_finish(s, c, "BAD_CAP")
             ELSE IF "RECALL" \notin s.hzd[ec]
             THEN LET s1 == [s EXCEPT !.hzd[ec] = @ \cup {"RECALL"}]
                      s2 == IF c # EcCpu(ec) THEN send_ipi(s1, EcCpu(ec)) ELSE s1
                  IN  sys_finish(s2, c, "SUCCESS")
             ELSE sys_finish(s, c, "SUCCESS")
    ELSE sys_finish(s, c, "BAD_PAR")

\* Ec::sys_ec_ctrl (syscall.cpp:600-628)
sys_ec_ctrl(s, c, op, sel) ==
    IF op = "RECALL"
    THEN LET ec == cast_ec(Space_obj_lookup(s, sel))
         IN  IF ec = NIL THEN sys_finish(s, c, "BAD_CAP")
             ELSE IF "RECALL" \notin s.hzd[ec]
             THEN LET s1 == [s EXCEPT !.hzd[ec] = @ \cup {"RECALL"}]
                      s2 == IF c # EcCpu(ec) /\ remote(s1, EcCpu(ec)) = ec
                            THEN send_ipi(s1, EcCpu(ec)) ELSE s1
                  IN  sys_finish(s2, c, "SUCCESS")
             ELSE sys_finish(s, c, "SUCCESS")
    ELSE sys_finish(s, c, "BAD_PAR")

----------------------------------------------------------------------------
(* Revocation of the page: the mapping database holds one node per PD that *)
(* maps the page, linked to the PD it was delegated from.                  *)

\* no shootdown in progress
NoShoot == [pds |-> {}, snap |-> <<>>]

RECURSIVE Descend(_, _, _)
\* the PDs reached from the set X through donor links, X included
Descend(d, X, fuel) ==
    IF fuel = 0 THEN X
    ELSE Descend(d, X \cup {x \in Pds : d[x] \in X}, fuel - 1)

\* the PDs that hold the page from pd, directly or through others
Donees(d, pd) == Descend(d, {pd}, Cardinality(Pds)) \ {pd}

\* capability_cast<Pd>(cap): the PD, NIL without one
cast_pd(cap) == IF cap.type = "PD" THEN cap.pd ELSE NIL

\* Pd::rev_crd(crd, self) called on CPU c: every donee's node, and the PD's
\* own with self, is unmapped and deleted; the stale bit of every CPU that
\* loads an unmapped PD is set, this CPU invalidates at once, the others get
\* the NMI, and the caller waits until their counters have moved
rev_crd(s, c, pd, self) ==
    LET gone == (Donees(s.donor, pd) \cup IF self THEN {pd} ELSE {}) \cap s.hpt
        bits == {b \in Cpus \X gone : b[1] \in PdCpus(b[2])}
        cpus == {b[1] : b \in bits} \ {c}
        s1 == [s EXCEPT !.hpt = @ \ gone,
                        !.donor = [x \in Pds |-> IF x \in gone THEN NIL ELSE @[x]],
                        !.stale = @ \cup {b \in bits : b[1] # c},
                        !.tlb = @ \ {b \in bits : b[1] = c},
                        !.nmi = @ \cup cpus,
                        !.shoot[c] = [pds |-> gone,
                                      snap |-> [x \in cpus |-> s.ack[x]]]]
    IN  Goto(s1, c, "shootdown_wait")

\* sys_revoke that never revokes the PD's own mapping
sys_revoke_keeps_own(s, c, rem, sel, self) ==
    LET pd == IF rem THEN cast_pd(Space_obj_lookup(s, sel))
              ELSE EcPd(s.current[c])
    IN  IF pd = NIL THEN sys_finish(s, c, "BAD_CAP")
        ELSE rev_crd(s, c, pd, FALSE)

\* Ec::sys_revoke (syscall.cpp:444-467) up to the wait inside rev_crd
sys_revoke(s, c, rem, sel, self) ==
    LET pd == IF rem THEN cast_pd(Space_obj_lookup(s, sel))
              ELSE EcPd(s.current[c])
    IN  IF pd = NIL THEN sys_finish(s, c, "BAD_CAP")
        ELSE rev_crd(s, c, pd, self)

\* the wait of rev_crd is over: every CPU it interrupted has acknowledged
shootdown_acked(s, c) ==
    \A x \in DOMAIN s.shoot[c].snap : s.ack[x] # s.shoot[c].snap[x]

\* Ec::sys_revoke after rev_crd has returned
sys_revoke_done(s, c) ==
    sys_finish([s EXCEPT !.shoot[c] = NoShoot], c, "SUCCESS")

----------------------------------------------------------------------------
(* Platform control: interrupt vectors, suspend, MSRs *)

Vectors == 0..(NUM_USER_VECTORS - 1)
\* Vector_info::disabled()
Disabled == [kp |-> Sel.null, sm |-> Sel.null]
\* the MSRs Msr::user_read and Msr::user_write accept
UserMsrs == {0}

\* Pd::is_passthrough: the root PD has passthrough permission
is_passthrough(pd) == pd = "Pd_root"

\* sys_irq_ctrl_check_vector_cpu (syscall.cpp:866-877): the status it
\* finishes the hypercall with, "OK" when it returns
sys_irq_ctrl_check_vector_cpu(cpu, vector) ==
    IF vector >= NUM_USER_VECTORS THEN "BAD_PAR"
    ELSE IF cpu \notin Cpus THEN "BAD_CPU"
    ELSE "OK"

\* Ec::sys_irq_ctrl_configure_vector (syscall.cpp:879-919) behind the
\* passthrough check of sys_irq_ctrl; set_ok = Vector_info::set gets its
\* references on the semaphore and the kernel page
sys_irq_ctrl_configure_vector(s, c, cpu, vector, smsel, kpsel, set_ok) ==
    LET chk == sys_irq_ctrl_check_vector_cpu(cpu, vector)
        sm == Space_obj_lookup(s, smsel).type = "SM"
        kp == Space_obj_lookup(s, kpsel).type = "KP"
    IN  IF ~is_passthrough(EcPd(s.current[c])) THEN sys_finish(s, c, "BAD_CAP")
        ELSE IF chk # "OK" THEN sys_finish(s, c, chk)
        ELSE IF ~sm /\ ~kp
        THEN sys_finish([s EXCEPT !.irt = @ \ {<<cpu, vector>>},
                                  !.vector_info[<<cpu, vector>>] = Disabled],
                        c, "SUCCESS")
        ELSE IF ~sm THEN sys_finish(s, c, "BAD_CAP")
        ELSE IF ~kp THEN sys_finish(s, c, "BAD_CAP")
        ELSE IF set_ok
        THEN sys_finish([s EXCEPT !.vector_info[<<cpu, vector>>] =
                                      [kp |-> kpsel, sm |-> smsel]],
                        c, "SUCCESS")
        ELSE sys_finish(s, c, "BAD_CAP")

\* Ec::sys_irq_ctrl_assign_ioapic_pin (syscall.cpp:921-954) behind the
\* passthrough check of sys_irq_ctrl, with interrupt remapping enabled;
\* pin_ok = the IOAPIC exists and has the pin
sys_irq_ctrl_assign_ioapic_pin(s, c, cpu, vector, pin_ok) ==
    LET chk == sys_irq_ctrl_check_vector_cpu(cpu, vector)
    IN  IF ~is_passthrough(EcPd(s.current[c])) THEN sys_finish(s, c, "BAD_CAP")
        ELSE IF chk # "OK" THEN sys_finish(s, c, chk)
        ELSE IF ~pin_ok THEN sys_finish(s, c, "BAD_PAR")
        ELSE sys_finish([s EXCEPT !.irt = @ \cup {<<cpu, vector>>}],
                        c, "SUCCESS")

\* Ec::sys_machine_ctrl_suspend (syscall.cpp:793-807) behind the passthrough
\* check of sys_machine_ctrl; slept = Suspend::suspend put the machine to
\* sleep, and the EC goes on at its continuation after the wake-up
sys_machine_ctrl_suspend(s, c, slept) ==
    LET cur == s.current[c]
        s1 == [s EXCEPT !.regs[cur].res = WakingVector,
                        !.cont[cur] = "sys_finish_SUCCESS"]
    IN  IF ~is_passthrough(EcPd(cur)) THEN sys_finish(s, c, "BAD_CAP")
        ELSE IF slept THEN Goto(s1, c, "sys_finish_SUCCESS")
        ELSE sys_finish(s1, c, "BAD_PAR")

\* Ec::sys_pd_ctrl_msr_access (syscall.cpp:553-577); the register res
\* carries the value to write and returns the value read
sys_pd_ctrl_msr_access(s, c, is_write, index) ==
    LET cur == s.current[c]
        success == index \in UserMsrs
    IN  IF ~is_passthrough(EcPd(cur)) THEN sys_finish(s, c, "BAD_CAP")
        ELSE IF is_write
        THEN IF success
             THEN sys_finish([s EXCEPT !.msr[index] = s.regs[cur].res],
                             c, "SUCCESS")
             ELSE sys_finish(s, c, "BAD_PAR")
        ELSE LET value == IF success THEN s.msr[index] ELSE 0
                 s1 == [s EXCEPT !.regs[cur].res = value]
             IN  sys_finish(s1, c, IF success THEN "SUCCESS" ELSE "BAD_PAR")

----------------------------------------------------------------------------
(* Object creation.  A created object is the capability record stored at   *)
(* its selector.  The scheduling context that can be created is the one of *)
(* G, the global EC that has none after boot.                              *)

\* capability_cast<Pd>(cap, Pd::PERM_OBJ_CREATION)
cast_pd_creation(cap) == cap.type = "PD" /\ "OBJ_CREATION" \in cap.perm

\* capability_cast<Ec>(cap, perm)
cast_ec_perm(cap, perm) == cap.type = "EC" /\ perm \in cap.perm

\* Ec::glb of the EC a capability names
ec_glb(cap) == IF cap.ec \in Ecs THEN EcGlb(cap.ec) ELSE cap.glb

\* Hip::cpu_online
cpu_online(cpu) == cpu \in Cpus

\* Space_obj::insert_root fails when the selector holds a capability
can_insert_root(s, sel) == sel \in DOMAIN s.objs /\ s.objs[sel] = NullCap

insert_root(s, sel, cap) == [s EXCEPT !.objs[sel] = cap]

\* Sc::remote_enqueue: the SC becomes ready on its CPU; the rescheduling IPI
\* goes to another CPU that is in user mode or idling
remote_enqueue(s, c, sc) ==
    LET cpu == EcCpu(ScEc(sc))
        s1 == ready_enqueue(s, sc)
    IN  IF cpu # c /\ s.kpc[cpu] \in {"user", "idle", "hlt"}
        THEN send_ipi(s1, cpu) ELSE s1

\* Pd::is_passthrough of the PD a capability names: a PD made by
\* sys_create_pd has the flag its constructor was given
parent_is_passthrough(cap) ==
    IF cap.pd \in Pds THEN is_passthrough(cap.pd) ELSE cap.is_passthrough

\* sys_create_pd that consults the PD of the calling EC
sys_create_pd_of_caller(s, c, sel, pdsel, passthrough, crd) ==
    LET parent_pd_cap == Space_obj_lookup(s, pdsel)
        pd == [type |-> "PD", pd |-> "Pd_new", perm |-> parent_pd_cap.perm,
               is_passthrough |->
                   passthrough /\ is_passthrough(EcPd(s.current[c])),
               caps |-> {x \in {crd} : Space_obj_lookup(s, x) # NullCap}]
    IN  IF ~cast_pd_creation(parent_pd_cap) THEN sys_finish(s, c, "BAD_CAP")
        ELSE IF ~can_insert_root(s, sel) THEN sys_finish(s, c, "BAD_CAP")
        ELSE sys_finish(insert_root(s, sel, pd), c, "SUCCESS")

\* Ec::sys_create_pd (syscall.cpp:240-267); crd = the selector delegated
\* into the new PD
sys_create_pd(s, c, sel, pdsel, passthrough, crd) ==
    LET parent_pd_cap == Space_obj_lookup(s, pdsel)
        pd == [type |-> "PD", pd |-> "Pd_new", perm |-> parent_pd_cap.perm,
               is_passthrough |->
                   passthrough /\ parent_is_passthrough(parent_pd_cap),
               caps |-> {x \in {crd} : Space_obj_lookup(s, x) # NullCap}]
    IN  IF ~cast_pd_creation(parent_pd_cap) THEN sys_finish(s, c, "BAD_CAP")
        ELSE IF ~can_insert_root(s, sel) THEN sys_finish(s, c, "BAD_CAP")
        ELSE sys_finish(insert_root(s, sel, pd), c, "SUCCESS")

\* Ec::Ec (ec.cpp:49-83) with MAP_USER_PAGE_IN_OWNER clear: a UTCB address
\* other than 0 is mapped in the page table of the PD of the EC
new_Ec(s, pd, u) == IF u # 0 THEN [s EXCEPT !.hpt = @ \cup {pd}] ELSE s

\* Ec::~Ec (ec.cpp:86): pre_free takes the UTCB out of the page table
delete_Ec(s, pd, u) == IF u # 0 THEN [s EXCEPT !.hpt = @ \ {pd}] ELSE s

\* sys_create_ec that accepts every user page below USER_ADDR
sys_create_ec_any_page(s, c, sel, cpu, is_vcpu, vmx, pdsel, user_page, glb) ==
    LET pdcap == Space_obj_lookup(s, pdsel)
        ec == [type |-> "EC", ec |-> "Ec_new", perm |-> EcPerms, glb |-> glb,
               cpu |-> cpu, pd |-> pdcap.pd, user_page |-> user_page,
               is_vcpu |-> is_vcpu]
    IN  IF ~cpu_online(cpu) THEN sys_finish(s, c, "BAD_CPU")
        ELSE IF is_vcpu /\ ~vmx THEN sys_finish(s, c, "BAD_FTR")
        ELSE IF ~cast_pd_creation(pdcap) THEN sys_finish(s, c, "BAD_CAP")
        ELSE IF user_page >= USER_ADDR THEN sys_finish(s, c, "BAD_PAR")
        ELSE
        LET s1 == new_Ec(s, pdcap.pd, user_page)
        IN  IF ~can_insert_root(s1, sel)
            THEN sys_finish(delete_Ec(s1, pdcap.pd, user_page), c, "BAD_CAP")
            ELSE sys_finish(insert_root(s1, sel, ec), c, "SUCCESS")

\* sys_create_ec that does not delete the EC it could not insert
sys_create_ec_keeps_ec(s, c, sel, cpu, is_vcpu, vmx, pdsel, user_page, glb) ==
    LET pdcap == Space_obj_lookup(s, pdsel)
        ec == [type |-> "EC", ec |-> "Ec_new", perm |-> EcPerms, glb |-> glb,
               cpu |-> cpu, pd |-> pdcap.pd, user_page |-> user_page,
               is_vcpu |-> is_vcpu]
    IN  IF ~cpu_online(cpu) THEN sys_finish(s, c, "BAD_CPU")
        ELSE IF is_vcpu /\ ~vmx THEN sys_finish(s, c, "BAD_FTR")
        ELSE IF ~cast_pd_creation(pdcap) THEN sys_finish(s, c, "BAD_CAP")
        ELSE IF user_page >= USER_ADDR \/ user_page % (PAGE_MASK + 1) # 0
        THEN sys_finish(s, c, "BAD_PAR")
        ELSE
        LET s1 == new_Ec(s, pdcap.pd, user_page)
        IN  IF ~can_insert_root(s1, sel) THEN sys_finish(s1, c, "BAD_CAP")
            ELSE sys_finish(insert_root(s1, sel, ec), c, "SUCCESS")

\* Ec::sys_create_ec (syscall.cpp:269-312); vmx = the machine has FEAT_VMX,
\* glb = bit 0 of the flags; the new EC has its UTCB at user_page
sys_create_ec(s, c, sel, cpu, is_vcpu, vmx, pdsel, user_page, glb) ==
    LET pdcap == Space_obj_lookup(s, pdsel)
        ec == [type |-> "EC", ec |-> "Ec_new", perm |-> EcPerms, glb |-> glb,
               cpu |-> cpu, pd |-> pdcap.pd, user_page |-> user_page,
               is_vcpu |-> is_vcpu]
    IN  IF ~cpu_online(cpu) THEN sys_finish(s, c, "BAD_CPU")
        ELSE IF is_vcpu /\ ~vmx THEN sys_finish(s, c, "BAD_FTR")
        ELSE IF ~cast_pd_creation(pdcap) THEN sys_finish(s, c, "BAD_CAP")
        ELSE IF user_page >= USER_ADDR \/ user_page % (PAGE_MASK + 1) # 0
        THEN sys_finish(s, c, "BAD_PAR")
        ELSE
        LET s1 == new_Ec(s, pdcap.pd, user_page)
        IN  IF ~can_insert_root(s1, sel)
            THEN sys_finish(delete_Ec(s1, pdcap.pd, user_page), c, "BAD_CAP")
            ELSE sys_finish(insert_root(s1, sel, ec), c, "SUCCESS")

\* sys_create_sc that accepts the priority NUM_PRIORITIES
sys_create_sc_top_prio(s, c, sel, pdsel, ecsel, prio, quantum) ==
    LET eccap == Space_obj_lookup(s, ecsel)
        sc == [type |-> "SC", sc |-> "SC_G", ec |-> eccap.ec, prio |-> prio,
               quantum |-> quantum]
        s1 == [insert_root(s, sel, sc) EXCEPT !.sc_refs["SC_G"] = 2]
    IN  IF ~cast_pd_creation(Space_obj_lookup(s, pdsel))
        THEN sys_finish(s, c, "BAD_CAP")
        ELSE IF ~cast_ec_perm(eccap, "CREATE_SC") THEN sys_finish(s, c, "BAD_CAP")
        ELSE IF ~ec_glb(eccap) THEN sys_finish(s, c, "BAD_CAP")
        ELSE IF prio = 0 \/ quantum = 0 \/ prio > NUM_PRIORITIES
        THEN sys_finish(s, c, "BAD_PAR")
        ELSE IF ~can_insert_root(s, sel) THEN sys_finish(s, c, "BAD_CAP")
        ELSE sys_finish(remote_enqueue(s1, c, "SC_G"), c, "SUCCESS")

\* Ec::sys_create_sc (syscall.cpp:314-353)
sys_create_sc(s, c, sel, pdsel, ecsel, prio, quantum) ==
    LET eccap == Space_obj_lookup(s, ecsel)
        sc == [type |-> "SC", sc |-> "SC_G", ec |-> eccap.ec, prio |-> prio,
               quantum |-> quantum]
        s1 == [insert_root(s, sel, sc) EXCEPT !.sc_refs["SC_G"] = 2]
    IN  IF ~cast_pd_creation(Space_obj_lookup(s, pdsel))
        THEN sys_finish(s, c, "BAD_CAP")
        ELSE IF ~cast_ec_perm(eccap, "CREATE_SC") THEN sys_finish(s, c, "BAD_CAP")
        ELSE IF ~ec_glb(eccap) THEN sys_finish(s, c, "BAD_CAP")
        ELSE IF prio = 0 \/ quantum = 0 \/ prio >= NUM_PRIORITIES
        THEN sys_finish(s, c, "BAD_PAR")
        ELSE IF ~can_insert_root(s, sel) THEN sys_finish(s, c, "BAD_CAP")
        ELSE sys_finish(remote_enqueue(s1, c, "SC_G"), c, "SUCCESS")

\* sys_create_pt that binds the portal to any EC
sys_create_pt_any_ec(s, c, sel, pdsel, ecsel, mtd, eip) ==
    LET eccap == Space_obj_lookup(s, ecsel)
        pt == [type |-> "PT",
               pt |-> [ec |-> eccap.ec, id |-> sel, ip |-> eip, mtd |-> mtd]]
    IN  IF ~cast_pd_creation(Space_obj_lookup(s, pdsel))
        THEN sys_finish(s, c, "BAD_CAP")
        ELSE IF ~cast_ec_perm(eccap, "CREATE_PT") THEN sys_finish(s, c, "BAD_CAP")
        ELSE IF ~can_insert_root(s, sel) THEN sys_finish(s, c, "BAD_CAP")
        ELSE sys_finish(insert_root(s, sel, pt), c, "SUCCESS")

\* Ec::sys_create_pt (syscall.cpp:355-387)
sys_create_pt(s, c, sel, pdsel, ecsel, mtd, eip) ==
    LET eccap == Space_obj_lookup(s, ecsel)
        pt == [type |-> "PT",
               pt |-> [ec |-> eccap.ec, id |-> sel, ip |-> eip, mtd |-> mtd]]
    IN  IF ~cast_pd_creation(Space_obj_lookup(s, pdsel))
        THEN sys_finish(s, c, "BAD_CAP")
        ELSE IF ~cast_ec_perm(eccap, "CREATE_PT") THEN sys_finish(s, c, "BAD_CAP")
        ELSE IF ec_glb(eccap) THEN sys_finish(s, c, "BAD_CAP")
        ELSE IF ~can_insert_root(s, sel) THEN sys_finish(s, c, "BAD_CAP")
        ELSE sys_finish(insert_root(s, sel, pt), c, "SUCCESS")

\* Ec::sys_create_sm (syscall.cpp:389-410)
sys_create_sm(s, c, sel, pdsel, cnt) ==
    IF ~cast_pd_creation(Space_obj_lookup(s, pdsel))
    THEN sys_finish(s, c, "BAD_CAP")
    ELSE IF ~can_insert_root(s, sel) THEN sys_finish(s, c, "BAD_CAP")
    ELSE sys_finish(insert_root(s, sel, [type |-> "SM", cnt |-> cnt]),
                    c, "SUCCESS")

\* Ec::sys_create_kp (syscall.cpp:412-433)
sys_create_kp(s, c, sel, pdsel) ==
    IF ~cast_pd_creation(Space_obj_lookup(s, pdsel))
    THEN sys_finish(s, c, "BAD_CAP")
    ELSE IF ~can_insert_root(s, sel) THEN sys_finish(s, c, "BAD_CAP")
    ELSE sys_finish(insert_root(s, sel, [type |-> "KP"]), c, "SUCCESS")

\* Ec::sys_create_vcpu (syscall.cpp:435-442)
sys_create_vcpu(s, c, sel, pdsel) == sys_finish(s, c, "BAD_FTR")

----------------------------------------------------------------------------
(* Generic space (space.cpp).  A space owns an MDB tree and a spinlock.   *)
(* The tree is the set of its nodes; indexes and sizes are machine words  *)
(* of WordBits bits.  Mdb (lookup, insert, remove) and max_order are not  *)
(* part of space.cpp.                                                      *)

WordBits == 4
Word == 2^WordBits
MWords == 0..(Word - 1)

PAGE_BITS == 2

Spaces == {"mem", "pio"}

\* no CPU: the value of a spinlock that is free
NoCpu == -1

\* Mdb::Mdb (space, phys, base, order, attr, type)
Mdb(space, phys, base, order, attr, type) ==
    [space |-> space, node_phys |-> phys, node_base |-> base,
     node_order |-> order, node_attr |-> attr, node_type |-> type]

\* nullptr as Mdb *
NoNode == Mdb(NIL, 0, 0, -1, 0, 0)

\* the indexes a node covers: [node_base, node_base + 2^node_order)
Covers(n) ==
    IF n = NoNode THEN {}
    ELSE {(n.node_base + i) % Word : i \in 0..(2^n.node_order - 1)}

\* Mdb::lookup (tree, idx, false): the node that covers idx
Mdb_lookup(t, idx) ==
    IF \E n \in t : idx \in Covers(n)
    THEN CHOOSE n \in t : idx \in Covers(n)
    ELSE NoNode

\* Mdb::insert: fails if the node overlaps a node of the tree
Mdb_insert_ok(t, n) == \A x \in t : Covers(x) \cap Covers(n) = {}
Mdb_insert(t, n) == IF Mdb_insert_ok(t, n) THEN t \cup {n} ELSE t

\* Mdb::remove
Mdb_remove(t, n) == t \ {n}

\* bit_scan_reverse, bit_scan_forward: -1 for 0
bit_scan_reverse(v) ==
    IF v = 0 THEN -1
    ELSE CHOOSE o \in 0..(WordBits - 1) : 2^o <= v /\ v < 2^(o + 1)
bit_scan_forward(v) ==
    IF v = 0 THEN -1
    ELSE CHOOSE o \in 0..(WordBits - 1) : v % 2^o = 0 /\ v % 2^(o + 1) # 0

\* max_order (base, size): the largest order that fits the alignment of base
\* and the size
max_order(base, size) ==
    LET o == bit_scan_reverse(size)
    IN  IF base # 0 /\ bit_scan_forward(base) < o
        THEN bit_scan_forward(base) ELSE o

\* Space::addreg, one iteration of its loop (space.cpp:48-49) in the loop
\* state r (the tree, addr, size, the nodes handed to Mdb::insert so far):
\* insert the node of order
\* o = max_order (addr, size), then size -= 1UL << o, addr += 1UL << o.
\* The variant addreg_step_fixed_base leaves addr alone.
addreg_step_fixed_base(r, attr, type) ==
    LET o == max_order(r.addr, r.size)
        n == Mdb(NIL, r.addr, r.addr, o, attr, type)
    IN  [tree |-> Mdb_insert(r.tree, n), addr |-> r.addr,
         size |-> (r.size - 2^o) % Word, nodes |-> Append(r.nodes, n)]

addreg_step(r, attr, type) ==
    LET o == max_order(r.addr, r.size)
        n == Mdb(NIL, r.addr, r.addr, o, attr, type)
    IN  [tree |-> Mdb_insert(r.tree, n), addr |-> (r.addr + 2^o) % Word,
         size |-> (r.size - 2^o) % Word, nodes |-> Append(r.nodes, n)]

\* the loop (space.cpp:48), cut off after k iterations
RECURSIVE addreg_loop(_, _, _, _)
addreg_loop(r, attr, type, k) ==
    IF r.size = 0 THEN [r EXCEPT !.done = TRUE]
    ELSE IF k = 0 THEN r
    ELSE LET r1 == addreg_step(r, attr, type)
         IN  addreg_loop([r EXCEPT !.tree = r1.tree, !.addr = r1.addr,
                                   !.size = r1.size, !.nodes = r1.nodes],
                         attr, type, k - 1)

\* Space::addreg (addr, size, attr, type) on the tree t (space.cpp:44-50):
\* the tree it leaves, the nodes it handed to Mdb::insert, and whether its
\* loop came to its end within Word iterations
addreg(t, addr, size, attr, type) ==
    addreg_loop([tree |-> t, addr |-> addr, size |-> size, nodes |-> <<>>,
                 done |-> FALSE], attr, type, Word)

\* variants of delreg: one adds the part below the page only, the other
\* adds the whole range of the node again
delreg_below_only(t, addr) ==
    LET idx == addr \div 2^PAGE_BITS
        node == Mdb_lookup(t, idx)
    IN  IF node = NoNode THEN [tree |-> t, node |-> NoNode]
        ELSE LET base == node.node_base
                 a1 == addreg(Mdb_remove(t, node), base, (idx - base) % Word,
                              node.node_attr, node.node_type)
             IN  [tree |-> a1.tree, node |-> node]

delreg_whole_range(t, addr) ==
    LET idx == addr \div 2^PAGE_BITS
        node == Mdb_lookup(t, idx)
    IN  IF node = NoNode THEN [tree |-> t, node |-> NoNode]
        ELSE LET base == node.node_base
                 a1 == addreg(Mdb_remove(t, node), base,
                              2^node.node_order % Word,
                              node.node_attr, node.node_type)
             IN  [tree |-> a1.tree, node |-> node]

\* Space::delreg (addr) on the tree t (space.cpp:52-70): the tree it leaves
\* and the node it removed
delreg(t, addr) ==
    LET idx == addr \div 2^PAGE_BITS
        node == Mdb_lookup(t, idx)
    IN  IF node = NoNode THEN [tree |-> t, node |-> NoNode]
        ELSE LET next == (idx + 1) % Word
                 base == node.node_base
                 last == (base + 2^node.node_order) % Word
                 a1 == addreg(Mdb_remove(t, node), base, (idx - base) % Word,
                              node.node_attr, node.node_type)
                 a2 == addreg(a1.tree, next, (last - next) % Word,
                              node.node_attr, node.node_type)
             IN  [tree |-> a2.tree, node |-> node]

\* what a CPU records of its Space operation
SpOp(pc, op, space, addr, size, attr, type) ==
    [pc |-> pc, op |-> op, space |-> space, addr |-> addr, size |-> size,
     attr |-> attr, type |-> type, node |-> NoNode, nodes |-> <<>>,
     before |-> {}, done |-> FALSE, idx |-> 0, part |-> 0, torn |-> FALSE]

\* no Space operation
NoOp == SpOp("idle", "none", NIL, 0, 0, 0, 0)

\* Lock_guard <Spinlock> guard (lock): the operation r goes on when the CPU
\* has got the lock of the space, and the lock is released at the end of
\* the guard's block
Lock_guard(r) == [r EXCEPT !.pc = "lock"]

\* the variant of tree_lookup without the guard
tree_lookup_unguarded(x, idx) ==
    [SpOp("locked", "tree_lookup", x, 0, 0, 0, 0) EXCEPT !.idx = idx]

\* Space::tree_lookup (idx) of space x (space.cpp:26-30), as it begins
tree_lookup(x, idx) ==
    Lock_guard([SpOp("lock", "tree_lookup", x, 0, 0, 0, 0) EXCEPT !.idx = idx])

\* Space::tree_insert (node) (space.cpp:32-36), as it begins: lock and tree
\* are those of node->space
tree_insert(node) ==
    Lock_guard([SpOp("lock", "tree_insert", node.space, 0, 0, 0, 0)
                EXCEPT !.node = node])

\* Space::tree_remove (node) (space.cpp:38-42), as it begins
tree_remove(node) ==
    Lock_guard([SpOp("lock", "tree_remove", node.space, 0, 0, 0, 0)
                EXCEPT !.node = node])

\* Space::addreg of space x (space.cpp:44-50), as it begins
addreg_begin(x, addr, size, attr, type) ==
    Lock_guard(SpOp("lock", "addreg", x, addr, size, attr, type))

\* Space::delreg of space x (space.cpp:52-70), as it begins: addr >>=
\* PAGE_BITS is the index that is looked up
delreg_begin(x, addr) ==
    Lock_guard([SpOp("lock", "delreg", x, 0, 0, 0, 0)
                EXCEPT !.idx = addr \div 2^PAGE_BITS])

\* the operation r of a CPU runs the loop of addreg: as addreg, or as one
\* of the two calls of addreg in delreg
InAddreg(r) == r.op = "addreg" \/ (r.op = "delreg" /\ r.part \in {1, 2})

\* the tree t after the Mdb::insert or Mdb::remove that r is about to do
Mutated(t, r) ==
    CASE r.op = "tree_insert" -> Mdb_insert(t, r.node)
      [] r.op = "tree_remove" -> Mdb_remove(t, r.node)
      [] r.op = "delreg" /\ r.part = 0 -> Mdb_remove(t, r.node)
      [] OTHER -> addreg_step([tree |-> t, addr |-> r.addr, size |-> r.size,
                               nodes |-> <<>>], r.attr, r.type).tree

\* AfterMutation of a delreg that goes on with its first addreg inside the
\* guard of the removal
AfterMutation_one_guard(r) ==
    IF InAddreg(r)
    THEN LET o == max_order(r.addr, r.size)
         IN  [r EXCEPT !.pc = "locked", !.addr = (r.addr + 2^o) % Word,
                       !.size = (r.size - 2^o) % Word]
    ELSE IF r.op = "delreg"
    THEN [r EXCEPT !.pc = "locked", !.part = 1, !.addr = r.node.node_base,
                   !.size = (r.idx - r.node.node_base) % Word,
                   !.attr = r.node.node_attr, !.type = r.node.node_type]
    ELSE [r EXCEPT !.pc = "unlock"]

\* the operation r after that Mdb::insert or Mdb::remove
AfterMutation(r) ==
    IF InAddreg(r)
    THEN LET o == max_order(r.addr, r.size)
         IN  [r EXCEPT !.pc = "locked", !.addr = (r.addr + 2^o) % Word,
                       !.size = (r.size - 2^o) % Word]
    ELSE [r EXCEPT !.pc = "unlock"]

\* the operation r after the guard has released the lock: delreg goes on
\* with addreg (base, addr - base) and addreg (next, last - next)
AfterUnlock(r) ==
    LET base == r.node.node_base
        next == (r.idx + 1) % Word
        last == (base + 2^r.node.node_order) % Word
    IN  IF r.op = "delreg" /\ r.part = 0 /\ r.node # NoNode
        THEN [r EXCEPT !.pc = "lock", !.part = 1, !.addr = base,
                       !.size = (r.idx - base) % Word,
                       !.attr = r.node.node_attr, !.type = r.node.node_type]
        ELSE IF r.op = "delreg" /\ r.part = 1
        THEN [r EXCEPT !.pc = "lock", !.part = 2, !.addr = next,
                       !.size = (last - next) % Word]
        ELSE [r EXCEPT !.pc = "done"]

----------------------------------------------------------------------------
(* Initial state: the state after bootstrap created the objects.  CPU 0 is *)
(* about to run the scheduler for the first time; A is the root EC         *)
(* (cont = root_invoke), B a global EC created by sys_create_ec            *)
(* (cont = send_msg<ret_user_iret>, dst_portal = EXC_STARTUP), the local   *)
(* ECs have no continuation.  G is a global EC like B whose scheduling     *)
(* context has not been created: it does not run.                          *)

InitRegs == [pt |-> 0, ip |-> 0, status |-> "NONE", mtd |-> "NONE",
             dst_portal |-> EXC_STARTUP, sel |-> 0, flags |-> {},
             iret_frame |-> FALSE, res |-> 0, args |-> NoArgs]

KernelBoot(withG) ==
    /\ cont = [e \in Ecs |->
                 CASE e = "A" -> "root_invoke"
                   [] e \in {"B", "G"} -> "send_msg_iret"
                   [] is_idle_ec(e) -> "idle"
                   [] OTHER -> "nil"]
    /\ partner = [e \in Ecs |-> NIL]
    /\ rcap = [e \in Ecs |-> NIL]
    /\ regs = [e \in Ecs |-> InitRegs]
    /\ utcb = [e \in Ecs |-> 0]
    /\ hzd = [e \in Ecs |-> {}]
    /\ cpu_hzd = [c \in Cpus |-> {}]
    /\ current = [c \in Cpus |-> IdleEc(c)]
    /\ sc_current = [c \in Cpus |-> IF c = 0 THEN "SC_I0" ELSE "SC_I1"]
    /\ ready = [c \in Cpus |-> IF c = 0 THEN <<"SC_A", "SC_B">>
                              ELSE IF withG THEN <<"SC_G">> ELSE <<>>]
    /\ scq = [e \in Ecs |-> <<>>]
    /\ sc_refs = [sc \in Scs |-> IF sc = "SC_G" /\ ~withG THEN 0 ELSE 2]
    /\ ctr_link = [c \in Cpus |-> 0]
    /\ ctr_loop = [c \in Cpus |-> 0]
    /\ fpu = [c \in Cpus |-> IdleEc(c)]
    /\ sm_counter = 0
    /\ sm_queue = <<>>
    /\ kpc = [c \in Cpus |-> IF c = 0 \/ withG THEN "schedule" ELSE "hlt"]
    /\ entries = 0
    /\ revoked = {}
    /\ outcome = [e \in Ecs |-> "none"]
    /\ at_call = [e \in Ecs |-> NoCall]
    /\ ipi = {}
    /\ hpt = {"Pd_root"}
    /\ donor = [pd \in Pds |-> NIL]
    /\ tlb = {}
    /\ stale = {}
    /\ gdt_ko = {}
    /\ nmi = {}
    /\ ack = [c \in Cpus |-> 0]
    /\ shoot = [c \in Cpus |-> NoShoot]
    /\ owes = {}
    /\ stale_use = {}
    /\ vector_info = [v \in Cpus \X Vectors |-> Disabled]
    /\ irt = {}
    /\ msr = [i \in UserMsrs |-> 0]
    /\ objs = [sel \in {Sel.free, Sel.free2} |-> NullCap]
    /\ ran = [c \in Cpus |-> <<>>]
    /\ exc_regs = [c \in Cpus |-> NoExc]
    /\ tr_limit = {}

\* the spaces with the tree t in space "mem" and no operation under way
SpaceBoot(t) ==
    /\ tree = [x \in Spaces |-> IF x = "mem" THEN t ELSE {}]
    /\ lock = [x \in Spaces |-> NoCpu]
    /\ mid = [x \in Spaces |-> NoCpu]
    /\ sp = [c \in Cpus |-> NoOp]
    /\ calls = 0

Boot(withG) == KernelBoot(withG) /\ SpaceBoot({})

Init == Boot(FALSE)

\* the state after the scheduling context of G was created as well: CPU 1
\* is about to run its scheduler for the first time
HzdInit == Boot(TRUE)

----------------------------------------------------------------------------
(* Inputs *)

Msgs == 0..MaxMsg
CallSels == {Sel.pt_s, Sel.pt_t, Sel.pt_r, Sel.sm}
CallFlags == {{}, {"DISABLE_BLOCKING"}}
ReplySms == {Sel.null, Sel.sm, Sel.pt_s}
XferResults == {"OK", "OUT_OF_MEMORY", "INVALID_MAPPING"}
ExcVecs == {EXC_PF, EXC_GP, EXC_DB}
\* selectors whose capability may be revoked while the system runs
RevocableSels == {Sel.pt_s, Sel.pt_t}
\* ECs that run user code
UserEcs == {"A", "B", "S", "T"}

InUser(c) == kpc[c] = "user"

\* a kernel entry of CPU c: counted against the bound of the exploration
enter_kernel(s, c) == [s EXCEPT !.entries = @ + 1]

\* The current EC has executed user code before it enters the kernel again:
\* the register that carried the status of its last hypercall is the user's
\* (the kernel only ever writes it) and no longer holds that status.
user_ran(s, c) ==
    [enter_kernel(s, c) EXCEPT !.regs[s.current[c]].status = "NONE"]

----------------------------------------------------------------------------
(* Actions: kernel entries from user mode *)

\* The frame of a hypercall HC_CALL as the kernel finds it: selector and
\* flags are the caller's arguments, and the register that returns the status
\* holds the hypercall number, which reads as SUCCESS until sys_finish
\* overwrites it.
call_frame(s, c, sel, fl) ==
    [s EXCEPT !.regs[s.current[c]].sel = sel,
              !.regs[s.current[c]].flags = fl,
              !.regs[s.current[c]].status = "SUCCESS"]

\* hypercall HC_CALL
SysCallWith(c, sel, fl, u) ==
    /\ InUser(c) /\ entries < MaxEntries
    /\ Becomes(sys_call(call_frame(
                   [user_ran(State, c) EXCEPT
                      !.utcb[current[c]] = u,
                      !.at_call[current[c]] =
                         [utcb |-> u, cont |-> cont[current[c]],
                          rcap |-> rcap[current[c]], echo |-> FALSE]],
                   c, sel, fl), c))

UserSysCall(c) ==
    \E sel \in CallSels, fl \in CallFlags, u \in Msgs : SysCallWith(c, sel, fl, u)

\* hypercall HC_REPLY
SysReplyWith(c, smsel, d, f, u) ==
    /\ InUser(c) /\ entries < MaxEntries
    /\ Becomes(sys_reply([user_ran(State, c) EXCEPT !.utcb[current[c]] = u],
                         c, smsel, d, f))

UserSysReply(c) ==
    \E smsel \in ReplySms, d \in XferResults, f \in BOOLEAN, u \in Msgs :
       SysReplyWith(c, smsel, d, f, u)

\* Ec::handle_exc for an exception taken in user mode that no in-kernel
\* path handles (ec_exc.cpp:183-216)
ExceptionWith(c, vec) ==
    /\ InUser(c) /\ entries < MaxEntries
    /\ Becomes(send_msg([user_ran(State, c) EXCEPT
                            !.regs[current[c]].dst_portal = vec], c, "iret"))

Exception(c) == \E vec \in ExcVecs : ExceptionWith(c, vec)

\* timer interrupt in user mode: the quantum is used up
TimerIrq(c) ==
    /\ InUser(c) /\ entries < MaxEntries
    /\ Becomes(ret_user_iret([user_ran(State, c) EXCEPT
                               !.cpu_hzd[c] = @ \cup {"SCHED"}], c))

\* a device interrupt whose vector is bound to the semaphore: Sm::up, then
\* the interrupted context is resumed (user mode through ret_user_iret, the
\* idle loop after its hlt)
DeviceIrq(c) ==
    /\ kpc[c] \in {"user", "hlt"} /\ entries < MaxEntries
    /\ sm_queue = <<>> => sm_counter < MaxSmCount
    /\ IF kpc[c] = "user"
       THEN Becomes(ret_user_iret(sm_up(user_ran(State, c)), c))
       ELSE Becomes(Goto(sm_up(enter_kernel(State, c)), c, "idle"))

\* the capability of an SC is revoked: only the scheduler's reference is left
RevokeSc(sc) ==
    /\ \E c \in Cpus : InUser(c)
    /\ sc_refs[sc] = 2 /\ ScPrio(sc) > 0 /\ entries < MaxEntries
    /\ Becomes([State EXCEPT !.sc_refs[sc] = 1, !.entries = @ + 1])

\* the capability at a selector is revoked (sys_revoke by its delegator)
RevokeCap(sel) ==
    /\ \E c \in Cpus : InUser(c)
    /\ sel \notin revoked /\ entries < MaxEntries
    /\ Becomes([State EXCEPT !.revoked = @ \cup {sel}, !.entries = @ + 1])

(* Actions: the kernel continues at kpc *)

Schedule(c) ==
    /\ kpc[c] \in {"schedule", "schedule_suspend"}
    /\ Becomes(schedule(State, c, kpc[c] = "schedule_suspend"))

Root_invoke(c) == kpc[c] = "root_invoke" /\ Becomes(root_invoke(State, c))

Ret_user_sysexit(c) ==
    kpc[c] = "ret_user_sysexit" /\ Becomes(ret_user_sysexit(State, c))

Ret_user_iret(c) == kpc[c] = "ret_user_iret" /\ Becomes(ret_user_iret(State, c))

\* one round of the idle loop that no NMI interrupts
Idle(c) == kpc[c] = "idle" /\ Becomes(hlt(idle(State, c), c))

\* sys_finish<COM_ABT>, the continuation Ec::die gives to a caller
Sys_finish(c) ==
    kpc[c] = "sys_finish_COM_ABT" /\ Becomes(sys_finish(State, c, "COM_ABT"))

Sys_call(c) == kpc[c] = "sys_call" /\ Becomes(sys_call(State, c))

Send_msg(c) == kpc[c] = "send_msg_iret" /\ Becomes(send_msg(State, c, "iret"))

Recv_user(c) ==
    /\ kpc[c] = "recv_user"
    /\ \E d \in XferResults : Becomes(recv_user(State, c, d))

Recv_kern(c) == kpc[c] = "recv_kern" /\ Becomes(recv_kern(State, c))

\* Ec::dead: the continuation of a killed EC
Dead(c) == kpc[c] = "dead" /\ Becomes(die(State, c))

Next ==
    \/ \E c \in Cpus :
          \/ UserSysCall(c) \/ UserSysReply(c)
          \/ Exception(c) \/ TimerIrq(c) \/ DeviceIrq(c)
          \/ Schedule(c) \/ Root_invoke(c) \/ Ret_user_sysexit(c)
          \/ Ret_user_iret(c) \/ Idle(c)
          \/ Sys_finish(c) \/ Sys_call(c) \/ Send_msg(c)
          \/ Recv_user(c) \/ Recv_kern(c) \/ Dead(c)
    \/ \E sc \in Scs : RevokeSc(sc)
    \/ \E sel \in RevocableSels : RevokeCap(sel)

Spec == Init /\ [][Next]_vars

\* a CPU that is in the kernel executes the function it is at: the kernel
\* runs with interrupts disabled and every handler ends in a jump
KernelStep(c) ==
    \/ Schedule(c) \/ Root_invoke(c) \/ Ret_user_sysexit(c)
    \/ Ret_user_iret(c) \/ Idle(c)
    \/ Sys_finish(c) \/ Sys_call(c) \/ Send_msg(c)
    \/ Recv_user(c) \/ Recv_kern(c) \/ Dead(c)

\* the positions at which KernelStep is enabled
KernelPcs ==
    {"schedule", "schedule_suspend", "root_invoke", "ret_user_sysexit",
     "ret_user_iret", "idle", "sys_finish_COM_ABT", "sys_call",
     "send_msg_iret", "recv_user", "recv_kern", "dead"}

\* the state a kernel step of CPU c leads to (with a transfer of typed items
\* that succeeds)
KernelNext(c) ==
    CASE kpc[c] \in {"schedule", "schedule_suspend"} ->
            schedule(State, c, kpc[c] = "schedule_suspend")
      [] kpc[c] = "root_invoke" -> root_invoke(State, c)
      [] kpc[c] = "ret_user_sysexit" -> ret_user_sysexit(State, c)
      [] kpc[c] = "ret_user_iret" -> ret_user_iret(State, c)
      [] kpc[c] = "idle" -> hlt(idle(State, c), c)
      [] kpc[c] = "sys_finish_COM_ABT" -> sys_finish(State, c, "COM_ABT")
      [] kpc[c] = "sys_call" -> sys_call(State, c)
      [] kpc[c] = "send_msg_iret" -> send_msg(State, c, "iret")
      [] kpc[c] = "recv_user" -> recv_user(State, c, "OK")
      [] kpc[c] = "recv_kern" -> recv_kern(State, c)
      [] kpc[c] = "dead" -> die(State, c)
      [] OTHER -> State

\* every kernel step changes the state: KernelStep(c) is enabled as a step
\* that is no stuttering exactly at the positions KernelPcs
KernelMoves == \A c \in Cpus : kpc[c] \in KernelPcs => KernelNext(c) # State

\* weak fairness of KernelStep(c), WF_vars(KernelStep(c)), with its
\* enabling condition written as the state predicate it is
Fair_KernelStep(c) ==
    []<>(kpc[c] \notin KernelPcs) \/ []<><<KernelStep(c)>>_vars

FairSpec == Spec /\ \A c \in Cpus : Fair_KernelStep(c)

----------------------------------------------------------------------------
(* The call chain: the same kernel with users that only call and reply.    *)
(* The global ECs A and B call the portal of S, S calls the portal of T,   *)
(* a server replies to the caller it has, the timer preempts.  Calls are   *)
(* counted against MaxChainEntries; a reply needs a caller, so replies are *)
(* bounded by the calls; the timer is not bounded.                         *)

\* the portal an EC of the chain calls
ChainSel(e) == IF e = "S" THEN Sel.pt_t ELSE Sel.pt_s

ChainCall(c) ==
    /\ InUser(c) /\ entries < MaxChainEntries /\ current[c] \in {"A", "B", "S"}
    /\ Becomes(sys_call(call_frame(
                   [user_ran(State, c) EXCEPT
                      !.utcb[current[c]] = 0,
                      !.at_call[current[c]] =
                         [utcb |-> 0, cont |-> cont[current[c]],
                          rcap |-> rcap[current[c]], echo |-> FALSE]],
                   c, ChainSel(current[c]), {}), c))

ChainReply(c) ==
    /\ InUser(c) /\ rcap[current[c]] # NIL
    /\ Becomes(sys_reply([State EXCEPT !.regs[current[c]].status = "NONE"],
                         c, Sel.null, "OK", FALSE))

ChainTimer(c) ==
    /\ InUser(c)
    /\ Becomes(ret_user_iret([State EXCEPT
                               !.regs[current[c]].status = "NONE",
                               !.cpu_hzd[c] = @ \cup {"SCHED"}], c))

\* the kernel functions the chain reaches
ChainStep(c) ==
    \/ Schedule(c) \/ Root_invoke(c) \/ Ret_user_sysexit(c)
    \/ Ret_user_iret(c) \/ Sys_call(c) \/ Send_msg(c)
    \/ Recv_user(c) \/ Recv_kern(c)

ChainNext ==
    \E c \in Cpus : ChainCall(c) \/ ChainReply(c) \/ ChainTimer(c) \/ ChainStep(c)

\* the positions at which ChainStep is enabled
ChainPcs == KernelPcs \ {"idle", "sys_finish_COM_ABT", "dead"}

\* every server replies in the end: a server that executes user code again
\* and again while it holds a caller replies (strong fairness of
\* ChainReply(c), its enabling condition written out)
Fair_ChainReply(c) ==
    \/ <>[](~(InUser(c) /\ rcap[current[c]] # NIL))
    \/ []<><<ChainReply(c)>>_vars

\* the timer fires in the end while the CPU executes user code (weak
\* fairness of ChainTimer(c))
Fair_ChainTimer(c) == []<>(~InUser(c)) \/ []<><<ChainTimer(c)>>_vars

\* the kernel makes progress (weak fairness of ChainStep(c))
Fair_ChainStep(c) ==
    []<>(kpc[c] \notin ChainPcs) \/ []<><<ChainStep(c)>>_vars

ChainSpec ==
    /\ Init /\ [][ChainNext]_vars
    /\ \A c \in Cpus :
          Fair_ChainStep(c) /\ Fair_ChainReply(c) /\ Fair_ChainTimer(c)

----------------------------------------------------------------------------
(* Hazards: the same kernel with users that recall ECs.  The global ECs A  *)
(* and B run on CPU 0 and G runs on CPU 1; the event portals of G lead to  *)
(* R.  A user issues sys_ec_ctrl, a server replies to the caller it has,   *)
(* the timer preempts, RCU asks a CPU for a quiescent state, single-step   *)
(* is armed for an EC, and a reschedule IPI interrupts its CPU.            *)

EcCtrlOps == {"RECALL", "OTHER"}
EcCtrlSels == {Sel.ec_a, Sel.ec_b, Sel.ec_g, Sel.ec_s, Sel.pt_s, Sel.null}

\* hypercall HC_EC_CTRL
SysEcCtrlWith(c, op, sel) ==
    /\ InUser(c) /\ entries < MaxHzdEntries
    /\ Becomes(sys_ec_ctrl(user_ran(State, c), c, op, sel))

UserSysEcCtrl(c) ==
    \E op \in EcCtrlOps, sel \in EcCtrlSels : SysEcCtrlWith(c, op, sel)

HzdReply(c) ==
    /\ InUser(c) /\ rcap[current[c]] # NIL
    /\ Becomes(sys_reply([State EXCEPT !.regs[current[c]].status = "NONE"],
                         c, Sel.null, "OK", FALSE))

HzdTimer(c) ==
    /\ InUser(c) /\ entries < MaxHzdEntries
    /\ Becomes(ret_user_iret([user_ran(State, c) EXCEPT
                               !.cpu_hzd[c] = @ \cup {"SCHED"}], c))

\* RCU needs a quiescent state of CPU c: HZD_RCU in its hazard word
RcuRequest(c) ==
    /\ "RCU" \notin cpu_hzd[c] /\ entries < MaxHzdEntries
    /\ Becomes([State EXCEPT !.cpu_hzd[c] = @ \cup {"RCU"},
                             !.entries = @ + 1])

\* single-step is armed for EC e: HZD_STEP in its hazard word
ArmStep(e) ==
    /\ "STEP" \notin hzd[e] /\ entries < MaxHzdEntries
    /\ Becomes([State EXCEPT !.hzd[e] = @ \cup {"STEP"}, !.entries = @ + 1])

\* the reschedule IPI interrupts CPU c in user mode or in the idle loop's
\* hlt; the interrupted context is resumed
IpiRke(c) ==
    /\ c \in ipi /\ kpc[c] \in {"user", "hlt"}
    /\ IF kpc[c] = "user"
       THEN Becomes(ret_user_iret(
                [State EXCEPT !.regs[current[c]].status = "NONE",
                              !.ipi = @ \ {c}], c))
       ELSE Becomes(Goto([State EXCEPT !.ipi = @ \ {c}], c, "idle"))

\* the kernel functions these users reach
HzdStep(c) ==
    \/ Schedule(c) \/ Root_invoke(c) \/ Ret_user_sysexit(c)
    \/ Ret_user_iret(c) \/ Idle(c) \/ Send_msg(c) \/ Recv_kern(c)

HzdNext ==
    \/ \E c \in Cpus :
          \/ UserSysEcCtrl(c) \/ HzdReply(c) \/ HzdTimer(c)
          \/ RcuRequest(c) \/ IpiRke(c) \/ HzdStep(c)
    \/ \E e \in {"A", "G"} : ArmStep(e)

HzdSpec == HzdInit /\ [][HzdNext]_vars

----------------------------------------------------------------------------
(* TLB shootdown: the same kernel with users that delegate, revoke and     *)
(* touch the page.  A and the servers run in the root PD, B in Pd_g on     *)
(* CPU 0 and G in Pd_c on CPU 1.                                           *)

RevokeSels == {Sel.pd_c, Sel.pd_g, Sel.null}

\* hypercall HC_REVOKE
SysRevokeWith(c, rem, sel, self) ==
    /\ InUser(c) /\ entries < MaxTlbEntries
    /\ Becomes(sys_revoke(user_ran(State, c), c, rem, sel, self))

UserSysRevoke(c) ==
    \E rem \in BOOLEAN, sel \in RevokeSels, self \in BOOLEAN :
       SysRevokeWith(c, rem, sel, self)

\* the wait loop of rev_crd ends and sys_revoke finishes
Shootdown_wait(c) ==
    /\ kpc[c] = "shootdown_wait" /\ shootdown_acked(State, c)
    /\ Becomes(sys_revoke_done(State, c))

\* the PDs whose unmapping is not complete: a shootdown for them is waited for
Revoking == UNION {shoot[c].pds : c \in Cpus}

\* the current EC of CPU c touches the page in user mode: the TLB is filled
\* from the page table of its PD, or the cached translation is used
UserAccess(c) ==
    LET pd == EcPd(current[c])
    IN  /\ InUser(c)
        /\ IF <<c, pd>> \in tlb
           THEN /\ pd \notin hpt /\ pd \notin Revoking /\ c \notin stale_use
                /\ Becomes([State EXCEPT !.stale_use = @ \cup {c}])
           ELSE /\ pd \in hpt
                /\ Becomes([State EXCEPT !.tlb = @ \cup {<<c, pd>>}])

\* a PD that holds the page delegates it to a PD that does not
MapDelegate(from, to) ==
    /\ from \in hpt /\ to \notin hpt /\ entries < MaxTlbEntries
    /\ Becomes([State EXCEPT !.hpt = @ \cup {to}, !.donor[to] = from,
                             !.entries = @ + 1])

\* the shootdown NMI is taken by CPU c, wherever it is
Nmi(c) ==
    /\ c \in nmi
    /\ Becomes(handle_exc_altstack(State, c, kpc[c] = "user"))

TlbTimer(c) ==
    /\ InUser(c) /\ entries < MaxTlbEntries
    /\ Becomes(ret_user_iret([user_ran(State, c) EXCEPT
                               !.cpu_hzd[c] = @ \cup {"SCHED"}], c))

TlbReply(c) ==
    /\ InUser(c) /\ rcap[current[c]] # NIL
    /\ Becomes(sys_reply([State EXCEPT !.regs[current[c]].status = "NONE"],
                         c, Sel.null, "OK", FALSE))

\* the kernel functions these users reach
TlbStep(c) ==
    \/ Schedule(c) \/ Root_invoke(c) \/ Ret_user_sysexit(c)
    \/ Ret_user_iret(c) \/ Send_msg(c) \/ Recv_kern(c) \/ Shootdown_wait(c)

TlbNext ==
    \/ \E c \in Cpus :
          \/ UserSysRevoke(c) \/ UserAccess(c) \/ Nmi(c)
          \/ TlbTimer(c) \/ TlbReply(c) \/ TlbStep(c)
    \/ \E from \in Pds, to \in Pds \ {"Pd_root"} : MapDelegate(from, to)

TlbSpec == HzdInit /\ [][TlbNext]_vars

----------------------------------------------------------------------------
(* Platform control: the same kernel with users that configure interrupt   *)
(* vectors, suspend the machine and access MSRs.  A runs in the root PD,   *)
(* which has passthrough permission, B in a PD that has not.               *)

\* the frame of a hypercall whose argument register res holds arg
arg_frame(s, c, arg) == [s EXCEPT !.regs[s.current[c]].res = arg]

SysCpus == Cpus \cup {2}
SysVectors == 0..NUM_USER_VECTORS
SysSels == {Sel.sm, Sel.kp, Sel.null}
MsrIndexes == UserMsrs \cup {1}
Words == {0, 1}

\* hypercall HC_IRQ_CTRL, CONFIGURE_VECTOR
SysConfigureVector(c, cpu, vector, smsel, kpsel, set_ok) ==
    /\ InUser(c) /\ entries < MaxSysEntries
    /\ Becomes(sys_irq_ctrl_configure_vector(user_ran(State, c), c, cpu,
                                              vector, smsel, kpsel, set_ok))

\* hypercall HC_IRQ_CTRL, ASSIGN_IOAPIC_PIN
SysAssignIoapicPin(c, cpu, vector, pin_ok) ==
    /\ InUser(c) /\ entries < MaxSysEntries
    /\ Becomes(sys_irq_ctrl_assign_ioapic_pin(user_ran(State, c), c, cpu,
                                               vector, pin_ok))

\* hypercall HC_MACHINE_CTRL, SUSPEND
SysSuspend(c, arg, slept) ==
    /\ InUser(c) /\ entries < MaxSysEntries
    /\ Becomes(sys_machine_ctrl_suspend(arg_frame(user_ran(State, c), c, arg),
                                         c, slept))

\* hypercall HC_PD_CTRL, MSR_ACCESS
SysMsrAccess(c, arg, is_write, index) ==
    /\ InUser(c) /\ entries < MaxSysEntries
    /\ Becomes(sys_pd_ctrl_msr_access(arg_frame(user_ran(State, c), c, arg),
                                       c, is_write, index))

\* sys_finish<SUCCESS>, the continuation of an EC that suspended the machine
Sys_finish_success(c) ==
    kpc[c] = "sys_finish_SUCCESS" /\ Becomes(sys_finish(State, c, "SUCCESS"))

SysTimer(c) ==
    /\ InUser(c) /\ entries < MaxSysEntries
    /\ Becomes(ret_user_iret([user_ran(State, c) EXCEPT
                               !.cpu_hzd[c] = @ \cup {"SCHED"}], c))

SysReply(c) ==
    /\ InUser(c) /\ rcap[current[c]] # NIL
    /\ Becomes(sys_reply([State EXCEPT !.regs[current[c]].status = "NONE"],
                         c, Sel.null, "OK", FALSE))

\* the kernel functions these users reach
SysStep(c) ==
    \/ Schedule(c) \/ Root_invoke(c) \/ Ret_user_sysexit(c)
    \/ Ret_user_iret(c) \/ Send_msg(c) \/ Recv_kern(c)
    \/ Sys_finish_success(c)

SysNext ==
    \E c \in Cpus :
       \/ \E cpu \in SysCpus, vector \in SysVectors, smsel \in SysSels,
             kpsel \in SysSels, set_ok \in BOOLEAN :
             SysConfigureVector(c, cpu, vector, smsel, kpsel, set_ok)
       \/ \E cpu \in SysCpus, vector \in SysVectors, pin_ok \in BOOLEAN :
             SysAssignIoapicPin(c, cpu, vector, pin_ok)
       \/ \E arg \in Words, slept \in BOOLEAN : SysSuspend(c, arg, slept)
       \/ \E arg \in Words, is_write \in BOOLEAN, index \in MsrIndexes :
             SysMsrAccess(c, arg, is_write, index)
       \/ SysTimer(c) \/ SysReply(c) \/ SysStep(c)

SysSpec == Init /\ [][SysNext]_vars

----------------------------------------------------------------------------
(* Object creation: the same kernel with users that create objects.  The   *)
(* selector free is empty after boot, the selector sm is taken.            *)

CreateSels == {Sel.free, Sel.sm}
ParentSels == {Sel.pd_c, Sel.pd_g, Sel.sm}
UserPages == {0, PAGE_MASK + 1, PAGE_MASK + 2, USER_ADDR}
\* the ECs a scheduling context is asked for: G has none yet
ScEcSels == {Sel.ec_g, Sel.ec_t, Sel.ec_s, Sel.pt_s, Sel.free}
PtEcSels == {Sel.ec_a, Sel.ec_g, Sel.ec_t, Sel.ec_s, Sel.pt_s, Sel.free}
Prios == 0..NUM_PRIORITIES

\* a hypercall of the EC that runs user code on CPU c
CreateEntry(c) == InUser(c) /\ entries < MaxCreateEntries

\* the frame of a hypercall with these argument registers
create_frame(s, c, args) == [s EXCEPT !.regs[s.current[c]].args = args]

SysCreatePd(c, sel, pdsel, passthrough, crd) ==
    /\ CreateEntry(c)
    /\ Becomes(sys_create_pd(
           create_frame(user_ran(State, c), c,
                        [op |-> "CREATE_PD", sel |-> sel, pd |-> pdsel,
                         passthrough |-> passthrough]),
           c, sel, pdsel, passthrough, crd))

SysCreateEc(c, sel, cpu, is_vcpu, vmx, pdsel, user_page, glb) ==
    /\ CreateEntry(c)
    /\ Becomes(sys_create_ec(
           create_frame(user_ran(State, c), c,
                        [op |-> "CREATE_EC", sel |-> sel, pd |-> pdsel,
                         cpu |-> cpu, ftr |-> is_vcpu /\ ~vmx,
                         user_page |-> user_page]),
           c, sel, cpu, is_vcpu, vmx, pdsel, user_page, glb))

SysCreateSc(c, sel, pdsel, ecsel, prio, quantum) ==
    /\ CreateEntry(c)
    /\ Becomes(sys_create_sc(
           create_frame(user_ran(State, c), c,
                        [op |-> "CREATE_SC", sel |-> sel, pd |-> pdsel,
                         ec |-> ecsel, prio |-> prio, quantum |-> quantum]),
           c, sel, pdsel, ecsel, prio, quantum))

SysCreatePt(c, sel, pdsel, ecsel) ==
    /\ CreateEntry(c)
    /\ Becomes(sys_create_pt(
           create_frame(user_ran(State, c), c,
                        [op |-> "CREATE_PT", sel |-> sel, pd |-> pdsel,
                         ec |-> ecsel]),
           c, sel, pdsel, ecsel, "GPR", 1))

SysCreateSm(c, sel, pdsel, cnt) ==
    /\ CreateEntry(c)
    /\ Becomes(sys_create_sm(
           create_frame(user_ran(State, c), c,
                        [op |-> "CREATE_SM", sel |-> sel, pd |-> pdsel]),
           c, sel, pdsel, cnt))

SysCreateKp(c, sel, pdsel) ==
    /\ CreateEntry(c)
    /\ Becomes(sys_create_kp(
           create_frame(user_ran(State, c), c,
                        [op |-> "CREATE_KP", sel |-> sel, pd |-> pdsel]),
           c, sel, pdsel))

SysCreateVcpu(c, sel, pdsel) ==
    /\ CreateEntry(c)
    /\ Becomes(sys_create_vcpu(
           create_frame(user_ran(State, c), c,
                        [op |-> "CREATE_VCPU", sel |-> sel, pd |-> pdsel]),
           c, sel, pdsel))

CreateTimer(c) ==
    /\ CreateEntry(c)
    /\ Becomes(ret_user_iret([user_ran(State, c) EXCEPT
                               !.cpu_hzd[c] = @ \cup {"SCHED"}], c))

CreateReply(c) ==
    /\ InUser(c) /\ rcap[current[c]] # NIL
    /\ Becomes(sys_reply([State EXCEPT !.regs[current[c]].status = "NONE"],
                         c, Sel.null, "OK", FALSE))

\* the kernel functions these users reach
CreateStep(c) ==
    \/ Schedule(c) \/ Root_invoke(c) \/ Ret_user_sysexit(c)
    \/ Ret_user_iret(c) \/ Idle(c) \/ Send_msg(c) \/ Recv_kern(c)

CreateNext ==
    \E c \in Cpus :
       \/ \E sel \in CreateSels, pdsel \in ParentSels :
             \/ \E passthrough \in BOOLEAN, crd \in {Sel.null, Sel.sm} :
                   SysCreatePd(c, sel, pdsel, passthrough, crd)
             \/ \E cpu \in SysCpus, is_vcpu \in BOOLEAN, vmx \in BOOLEAN,
                   user_page \in UserPages, glb \in BOOLEAN :
                   SysCreateEc(c, sel, cpu, is_vcpu, vmx, pdsel, user_page, glb)
             \/ \E ecsel \in ScEcSels, prio \in Prios, quantum \in Words :
                   SysCreateSc(c, sel, pdsel, ecsel, prio, quantum)
             \/ \E ecsel \in PtEcSels : SysCreatePt(c, sel, pdsel, ecsel)
             \/ \E cnt \in Words : SysCreateSm(c, sel, pdsel, cnt)
             \/ SysCreateKp(c, sel, pdsel)
             \/ SysCreateVcpu(c, sel, pdsel)
       \/ CreateTimer(c) \/ CreateReply(c) \/ IpiRke(c) \/ CreateStep(c)

CreateSpec == Init /\ [][CreateNext]_vars

----------------------------------------------------------------------------
(* Protection domains made of protection domains: the users create PDs at  *)
(* the two free selectors, with the root PD, Pd_c or a PD they created as  *)
(* parent.  A (in the root PD) and G (in Pd_c, on CPU 1) issue the calls.  *)

PdSels == {Sel.free, Sel.free2}
PdParentSels == {Sel.pd_root, Sel.pd_c, Sel.pd_g, Sel.free, Sel.free2}

PdNext ==
    \E c \in Cpus :
       \/ \E sel \in PdSels, pdsel \in PdParentSels, passthrough \in BOOLEAN :
             SysCreatePd(c, sel, pdsel, passthrough, Sel.null)
       \/ CreateTimer(c) \/ CreateReply(c)
       \/ Schedule(c) \/ Root_invoke(c) \/ Ret_user_sysexit(c)
       \/ Ret_user_iret(c) \/ Send_msg(c) \/ Recv_kern(c)

PdSpec == HzdInit /\ [][PdNext]_vars

----------------------------------------------------------------------------
(* System-call dispatch.  A handler of the code that returns to its caller *)
(* leaves the CPU at "returned"; a switch whose cases have no break then   *)
(* goes on with the handler of the next case.  Every handler that is       *)
(* entered is recorded in ran.  The handlers that work on devices, on the  *)
(* memory space or on objects outside this model finish with the status    *)
(* of their success (ok) or of their failure.                              *)

\* the arguments a system call passes on to its handler: a selector, a
\* parent PD selector, and whether the handler's operation succeeds
DispatchIns ==
    [sel : {Sel.free, Sel.pt_s}, pd : {Sel.pd_c, Sel.pd_g}, ok : BOOLEAN]

\* Ec::sys_assign_pci (syscall.cpp:745-771)
sys_assign_pci(s, c, ok) ==
    sys_finish(s, c, IF ok THEN "SUCCESS" ELSE "BAD_DEV")
\* sys_pd_ctrl_lookup that returns to the switch
sys_pd_ctrl_lookup_returns(s, c) ==
    Goto([s EXCEPT !.regs[s.current[c]].status = "SUCCESS"], c, "returned")
\* Ec::sys_pd_ctrl_lookup (syscall.cpp:469-483)
sys_pd_ctrl_lookup(s, c) == sys_finish(s, c, "SUCCESS")
\* Ec::sys_pd_ctrl_map_access_page (syscall.cpp:485-515)
sys_pd_ctrl_map_access_page(s, c, ok) ==
    sys_finish(s, c, IF ok THEN "SUCCESS" ELSE "BAD_PAR")
\* Ec::sys_pd_ctrl_delegate (syscall.cpp:529-551)
sys_pd_ctrl_delegate(s, c, ok) ==
    sys_finish(s, c, IF ok THEN "SUCCESS" ELSE "BAD_CAP")
\* Ec::sys_sc_ctrl (syscall.cpp:630-643)
sys_sc_ctrl(s, c, ok) == sys_finish(s, c, IF ok THEN "SUCCESS" ELSE "BAD_CAP")
\* Ec::sys_pt_ctrl (syscall.cpp:645-658)
sys_pt_ctrl(s, c, ok) == sys_finish(s, c, IF ok THEN "SUCCESS" ELSE "BAD_CAP")
\* Ec::sys_sm_ctrl (syscall.cpp:660-683) for a selector that holds no
\* semaphore capability with the permission
sys_sm_ctrl(s, c) == sys_finish(s, c, "BAD_CAP")
\* Ec::sys_kp_ctrl_map (syscall.cpp:685-709)
sys_kp_ctrl_map(s, c, ok) ==
    sys_finish(s, c, IF ok THEN "SUCCESS" ELSE "BAD_PAR")
\* Ec::sys_kp_ctrl_unmap (syscall.cpp:711-727)
sys_kp_ctrl_unmap(s, c, ok) ==
    sys_finish(s, c, IF ok THEN "SUCCESS" ELSE "BAD_PAR")
\* Ec::sys_vcpu_ctrl_run (syscall.cpp:1044-1051)
sys_vcpu_ctrl_run(s, c) == sys_finish(s, c, "BAD_FTR")
\* Ec::sys_vcpu_ctrl_poke (syscall.cpp:1053-1060)
sys_vcpu_ctrl_poke(s, c) == sys_finish(s, c, "BAD_FTR")
\* Ec::sys_machine_ctrl_update_microcode (syscall.cpp:809-831)
sys_machine_ctrl_update_microcode(s, c, ok) ==
    sys_finish(s, c, IF ok THEN "SUCCESS" ELSE "BAD_PAR")
\* Ec::sys_irq_ctrl_mask_ioapic_pin (syscall.cpp:956-970)
sys_irq_ctrl_mask_ioapic_pin(s, c, ok) ==
    sys_finish(s, c, IF ok THEN "SUCCESS" ELSE "BAD_PAR")
\* Ec::sys_irq_ctrl_assign_msi (syscall.cpp:972-1005) with interrupt
\* remapping enabled; ok = the device is found
sys_irq_ctrl_assign_msi(s, c, cpu, vector, ok) ==
    LET chk == sys_irq_ctrl_check_vector_cpu(cpu, vector)
    IN  IF chk # "OK" THEN sys_finish(s, c, chk)
        ELSE IF ~ok THEN sys_finish(s, c, "BAD_DEV")
        ELSE sys_finish([s EXCEPT !.irt = @ \cup {<<cpu, vector>>}],
                        c, "SUCCESS")
\* Ec::sys_irq_ctrl_assign_lvt (syscall.cpp:1019-1031)
sys_irq_ctrl_assign_lvt(s, c, ok) ==
    sys_finish(s, c, IF ok THEN "SUCCESS" ELSE "BAD_PAR")
\* Ec::sys_irq_ctrl_mask_lvt (syscall.cpp:1033-1042)
sys_irq_ctrl_mask_lvt(s, c, ok) ==
    sys_finish(s, c, IF ok THEN "SUCCESS" ELSE "BAD_PAR")

\* the handler of a sub-operation
sub_handler(s, c, name, in) ==
    LET s0 == enter(s, c, name)
    IN  CASE name = "sys_pd_ctrl_lookup" -> sys_pd_ctrl_lookup(s0, c)
          [] name = "sys_pd_ctrl_map_access_page" ->
                sys_pd_ctrl_map_access_page(s0, c, in.ok)
          [] name = "sys_pd_ctrl_delegate" -> sys_pd_ctrl_delegate(s0, c, in.ok)
          [] name = "sys_pd_ctrl_msr_access" ->
                sys_pd_ctrl_msr_access(s0, c, in.ok, 0)
          [] name = "sys_kp_ctrl_map" -> sys_kp_ctrl_map(s0, c, in.ok)
          [] name = "sys_kp_ctrl_unmap" -> sys_kp_ctrl_unmap(s0, c, in.ok)
          [] name = "sys_vcpu_ctrl_run" -> sys_vcpu_ctrl_run(s0, c)
          [] name = "sys_vcpu_ctrl_poke" -> sys_vcpu_ctrl_poke(s0, c)
          [] name = "sys_machine_ctrl_suspend" ->
                sys_machine_ctrl_suspend(s0, c, in.ok)
          [] name = "sys_machine_ctrl_update_microcode" ->
                sys_machine_ctrl_update_microcode(s0, c, in.ok)
          [] name = "sys_irq_ctrl_configure_vector" ->
                sys_irq_ctrl_configure_vector(s0, c, 0, 0, Sel.null, Sel.null,
                                              in.ok)
          [] name = "sys_irq_ctrl_assign_ioapic_pin" ->
                sys_irq_ctrl_assign_ioapic_pin(s0, c, 0, 0, in.ok)
          [] name = "sys_irq_ctrl_mask_ioapic_pin" ->
                sys_irq_ctrl_mask_ioapic_pin(s0, c, in.ok)
          [] name = "sys_irq_ctrl_assign_msi" ->
                sys_irq_ctrl_assign_msi(s0, c, 0, 0, in.ok)
          [] name = "sys_irq_ctrl_assign_lvt" -> sys_irq_ctrl_assign_lvt(s0, c, in.ok)
          [] name = "sys_irq_ctrl_mask_lvt" -> sys_irq_ctrl_mask_lvt(s0, c, in.ok)

\* the case of a switch that x selects: its position, 0 for none
CaseOf(names, x) ==
    IF \E i \in 1..Len(names) : names[i] = x
    THEN CHOOSE i \in 1..Len(names) : names[i] = x
    ELSE 0

RECURSIVE sub_cases(_, _, _, _, _)
\* the cases of a sub-operation switch from case k on, then the BAD_PAR
\* behind them
sub_cases(s, c, names, k, in) ==
    IF k > Len(names) THEN sys_finish(s, c, "BAD_PAR")
    ELSE LET s1 == sub_handler(s, c, names[k], in)
         IN  IF s1.kpc[c] = "returned" THEN sub_cases(s1, c, names, k + 1, in)
             ELSE s1

PdCtrlOps == <<"LOOKUP", "MAP_ACCESS_PAGE", "DELEGATE", "MSR_ACCESS">>
KpCtrlOps == <<"MAP", "UNMAP">>
VcpuCtrlOps == <<"RUN", "POKE">>
MachineCtrlOps == <<"SUSPEND", "UPDATE_MICROCODE">>
IrqCtrlOps == <<"CONFIGURE_VECTOR", "ASSIGN_IOAPIC_PIN", "MASK_IOAPIC_PIN",
                "ASSIGN_MSI", "ASSIGN_LVT", "MASK_LVT">>

\* the handler of every sub-operation, in the order of the switch
SubHandlers(id) ==
    CASE id = "HC_PD_CTRL" ->
            <<"sys_pd_ctrl_lookup", "sys_pd_ctrl_map_access_page",
              "sys_pd_ctrl_delegate", "sys_pd_ctrl_msr_access">>
      [] id = "HC_KP_CTRL" -> <<"sys_kp_ctrl_map", "sys_kp_ctrl_unmap">>
      [] id = "HC_VCPU_CTRL" -> <<"sys_vcpu_ctrl_run", "sys_vcpu_ctrl_poke">>
      [] id = "HC_MACHINE_CTRL" ->
            <<"sys_machine_ctrl_suspend", "sys_machine_ctrl_update_microcode">>
      [] id = "HC_IRQ_CTRL" ->
            <<"sys_irq_ctrl_configure_vector", "sys_irq_ctrl_assign_ioapic_pin",
              "sys_irq_ctrl_mask_ioapic_pin", "sys_irq_ctrl_assign_msi",
              "sys_irq_ctrl_assign_lvt", "sys_irq_ctrl_mask_lvt">>
      [] OTHER -> <<>>

SubOps(id) ==
    CASE id = "HC_PD_CTRL" -> PdCtrlOps
      [] id = "HC_KP_CTRL" -> KpCtrlOps
      [] id = "HC_VCPU_CTRL" -> VcpuCtrlOps
      [] id = "HC_MACHINE_CTRL" -> MachineCtrlOps
      [] id = "HC_IRQ_CTRL" -> IrqCtrlOps
      [] OTHER -> <<>>

\* the handler that op selects in the switch of hypercall id, "" for none
SubHandlerOf(id, op) ==
    IF CaseOf(SubOps(id), op) = 0 THEN ""
    ELSE SubHandlers(id)[CaseOf(SubOps(id), op)]

\* the switch over the sub-operations of hypercall id: the cases from the
\* selected one on, the BAD_PAR behind them when no case is selected
sub_switch(s, c, id, op, in) ==
    LET k == CaseOf(SubOps(id), op)
    IN  IF k = 0 THEN sys_finish(s, c, "BAD_PAR")
        ELSE sub_cases(s, c, SubHandlers(id), k, in)

\* Ec::sys_pd_ctrl (syscall.cpp:579-598)
sys_pd_ctrl(s, c, op, in) == sub_switch(s, c, "HC_PD_CTRL", op, in)

\* Ec::sys_kp_ctrl (syscall.cpp:729-743)
sys_kp_ctrl(s, c, op, in) == sub_switch(s, c, "HC_KP_CTRL", op, in)

\* Ec::sys_vcpu_ctrl (syscall.cpp:1062-1076)
sys_vcpu_ctrl(s, c, op, in) == sub_switch(s, c, "HC_VCPU_CTRL", op, in)

\* sys_machine_ctrl that looks at the sub-operation first
sys_machine_ctrl_op_first(s, c, op, in) ==
    IF CaseOf(MachineCtrlOps, op) = 0 THEN sys_finish(s, c, "BAD_PAR")
    ELSE IF ~is_passthrough(EcPd(s.current[c])) THEN sys_finish(s, c, "BAD_CAP")
    ELSE sub_switch(s, c, "HC_MACHINE_CTRL", op, in)

\* Ec::sys_machine_ctrl (syscall.cpp:773-791)
sys_machine_ctrl(s, c, op, in) ==
    IF ~is_passthrough(EcPd(s.current[c])) THEN sys_finish(s, c, "BAD_CAP")
    ELSE sub_switch(s, c, "HC_MACHINE_CTRL", op, in)

\* Ec::sys_irq_ctrl (syscall.cpp:833-861)
sys_irq_ctrl(s, c, op, in) ==
    IF ~is_passthrough(EcPd(s.current[c])) THEN sys_finish(s, c, "BAD_CAP")
    ELSE sub_switch(s, c, "HC_IRQ_CTRL", op, in)

\* the hypercall ids in the order of the cases of Ec::syscall_handler
HypercallIds ==
    <<"HC_CALL", "HC_REPLY", "HC_REVOKE", "HC_ASSIGN_PCI", "HC_CREATE_PD",
      "HC_CREATE_EC", "HC_CREATE_SC", "HC_CREATE_PT", "HC_CREATE_SM",
      "HC_CREATE_KP", "HC_CREATE_VCPU", "HC_PD_CTRL", "HC_EC_CTRL",
      "HC_SC_CTRL", "HC_PT_CTRL", "HC_SM_CTRL", "HC_KP_CTRL", "HC_VCPU_CTRL",
      "HC_MACHINE_CTRL", "HC_IRQ_CTRL">>

\* the handler of every hypercall id
HandlerOf(id) ==
    CASE id = "HC_CALL" -> "sys_call"
      [] id = "HC_REPLY" -> "sys_reply"
      [] id = "HC_REVOKE" -> "sys_revoke"
      [] id = "HC_ASSIGN_PCI" -> "sys_assign_pci"
      [] id = "HC_CREATE_PD" -> "sys_create_pd"
      [] id = "HC_CREATE_EC" -> "sys_create_ec"
      [] id = "HC_CREATE_SC" -> "sys_create_sc"
      [] id = "HC_CREATE_PT" -> "sys_create_pt"
      [] id = "HC_CREATE_SM" -> "sys_create_sm"
      [] id = "HC_CREATE_KP" -> "sys_create_kp"
      [] id = "HC_CREATE_VCPU" -> "sys_create_vcpu"
      [] id = "HC_PD_CTRL" -> "sys_pd_ctrl"
      [] id = "HC_EC_CTRL" -> "sys_ec_ctrl"
      [] id = "HC_SC_CTRL" -> "sys_sc_ctrl"
      [] id = "HC_PT_CTRL" -> "sys_pt_ctrl"
      [] id = "HC_SM_CTRL" -> "sys_sm_ctrl"
      [] id = "HC_KP_CTRL" -> "sys_kp_ctrl"
      [] id = "HC_VCPU_CTRL" -> "sys_vcpu_ctrl"
      [] id = "HC_MACHINE_CTRL" -> "sys_machine_ctrl"
      [] id = "HC_IRQ_CTRL" -> "sys_irq_ctrl"
      [] OTHER -> ""

\* the handler of hypercall id, called from Ec::syscall_handler
handler(s, c, id, op, in) ==
    LET s0 == enter(s, c, HandlerOf(id))
    IN  CASE id = "HC_CALL" -> sys_call(call_frame(s0, c, in.sel, {}), c)
          [] id = "HC_REPLY" -> sys_reply(s0, c, Sel.null, "OK", FALSE)
          [] id = "HC_REVOKE" -> sys_revoke(s0, c, TRUE, in.pd, FALSE)
          [] id = "HC_ASSIGN_PCI" -> sys_assign_pci(s0, c, in.ok)
          [] id = "HC_CREATE_PD" ->
                sys_create_pd(s0, c, in.sel, in.pd, FALSE, Sel.null)
          [] id = "HC_CREATE_EC" ->
                sys_create_ec(s0, c, in.sel, 0, FALSE, FALSE, in.pd, 0, in.ok)
          [] id = "HC_CREATE_SC" ->
                sys_create_sc(s0, c, in.sel, in.pd, Sel.ec_g, 1, 1)
          [] id = "HC_CREATE_PT" ->
                sys_create_pt(s0, c, in.sel, in.pd, Sel.ec_t, "GPR", 1)
          [] id = "HC_CREATE_SM" -> sys_create_sm(s0, c, in.sel, in.pd, 0)
          [] id = "HC_CREATE_KP" -> sys_create_kp(s0, c, in.sel, in.pd)
          [] id = "HC_CREATE_VCPU" -> sys_create_vcpu(s0, c, in.sel, in.pd)
          [] id = "HC_PD_CTRL" -> sys_pd_ctrl(s0, c, op, in)
          [] id = "HC_EC_CTRL" -> sys_ec_ctrl(s0, c, op, Sel.ec_b)
          [] id = "HC_SC_CTRL" -> sys_sc_ctrl(s0, c, in.ok)
          [] id = "HC_PT_CTRL" -> sys_pt_ctrl(s0, c, in.ok)
          [] id = "HC_SM_CTRL" -> sys_sm_ctrl(s0, c)
          [] id = "HC_KP_CTRL" -> sys_kp_ctrl(s0, c, op, in)
          [] id = "HC_VCPU_CTRL" -> sys_vcpu_ctrl(s0, c, op, in)
          [] id = "HC_MACHINE_CTRL" -> sys_machine_ctrl(s0, c, op, in)
          [] id = "HC_IRQ_CTRL" -> sys_irq_ctrl(s0, c, op, in)

RECURSIVE syscall_cases(_, _, _, _, _)
\* the cases of Ec::syscall_handler from case k on, then the default
syscall_cases(s, c, k, op, in) ==
    IF k > Len(HypercallIds) THEN sys_finish(s, c, "BAD_HYP")
    ELSE LET s1 == handler(s, c, HypercallIds[k], op, in)
         IN  IF s1.kpc[c] = "returned" THEN syscall_cases(s1, c, k + 1, op, in)
             ELSE s1

\* Ec::syscall_handler (syscall.cpp:1078-1131)
syscall_handler(s, c, id, op, in) ==
    LET k == CaseOf(HypercallIds, id)
        s0 == [s EXCEPT !.ran[c] = <<>>,
                        !.regs[s.current[c]].args =
                            [op |-> "HC", id |-> id, sub |-> op, ok |-> in.ok]]
    IN  IF k = 0 THEN sys_finish(s0, c, "BAD_HYP")
        ELSE syscall_cases(s0, c, k, op, in)

----------------------------------------------------------------------------
(* Dispatch: the same kernel with users that issue every hypercall id and  *)
(* every sub-operation, known or not.  A runs in the root PD, which has    *)
(* passthrough permission, B in a PD that has not.                         *)

\* the ids a user can put into the register: those above and one more
UserIds == {HypercallIds[i] : i \in 1..Len(HypercallIds)} \cup {"HC_UNKNOWN"}

\* the sub-operations a user can put into the register for an id; the
\* sub-operation field of IRQ_CTRL has no value outside its cases
UserOps(id) ==
    CASE id = "HC_EC_CTRL" -> {"RECALL", "OTHER"}
      [] id = "HC_IRQ_CTRL" -> {IrqCtrlOps[i] : i \in 1..Len(IrqCtrlOps)}
      [] id \in {"HC_PD_CTRL", "HC_KP_CTRL", "HC_VCPU_CTRL", "HC_MACHINE_CTRL"} ->
            {SubOps(id)[i] : i \in 1..Len(SubOps(id))} \cup {"OTHER"}
      [] OTHER -> {"NONE"}

Syscall(c, id, op, in) ==
    /\ InUser(c) /\ entries < MaxDispatchEntries
    /\ Becomes(syscall_handler(user_ran(State, c), c, id, op, in))

DispatchTimer(c) ==
    /\ InUser(c) /\ entries < MaxDispatchEntries
    /\ Becomes(ret_user_iret([user_ran(State, c) EXCEPT
                               !.cpu_hzd[c] = @ \cup {"SCHED"}], c))

DispatchReply(c) ==
    /\ InUser(c) /\ rcap[current[c]] # NIL
    /\ Becomes(sys_reply([State EXCEPT !.regs[current[c]].status = "NONE"],
                         c, Sel.null, "OK", FALSE))

\* the kernel functions these users reach
DispatchStep(c) ==
    \/ Schedule(c) \/ Root_invoke(c) \/ Ret_user_sysexit(c)
    \/ Ret_user_iret(c) \/ Idle(c) \/ Send_msg(c) \/ Recv_kern(c)
    \/ Shootdown_wait(c) \/ Sys_finish_success(c)

DispatchNext ==
    \E c \in Cpus :
       \/ \E id \in UserIds, in \in DispatchIns :
             \E op \in UserOps(id) : Syscall(c, id, op, in)
       \/ DispatchTimer(c) \/ DispatchReply(c) \/ IpiRke(c) \/ DispatchStep(c)

DispatchSpec == Init /\ [][DispatchNext]_vars

----------------------------------------------------------------------------
(* Regions: Space::addreg and Space::delreg called one after the other,   *)
(* each for every argument, on trees that earlier calls have built.       *)

MaxRegCalls == 2
MaxRegSize == 8

\* attributes and type of a region
Kinds == {[attr |-> 1, type |-> 0], [attr |-> 3, type |-> 1]}

RegAddreg(c, x, addr, size, k) ==
    /\ calls < MaxRegCalls
    /\ LET a == addreg(tree[x], addr, size, k.attr, k.type)
       IN  /\ tree' = [tree EXCEPT ![x] = a.tree]
           /\ sp' = [sp EXCEPT ![c] =
                  [SpOp("done", "addreg", x, addr, size, k.attr, k.type)
                   EXCEPT !.nodes = a.nodes, !.before = tree[x],
                          !.done = a.done]]
    /\ calls' = calls + 1
    /\ UNCHANGED <<lock, mid>>
    /\ KernelBecomes(State)

RegDelreg(c, x, addr) ==
    /\ calls < MaxRegCalls
    /\ LET d == delreg(tree[x], addr)
       IN  /\ tree' = [tree EXCEPT ![x] = d.tree]
           /\ sp' = [sp EXCEPT ![c] =
                  [SpOp("done", "delreg", x, addr, 0, 0, 0)
                   EXCEPT !.node = d.node, !.before = tree[x],
                          !.done = TRUE]]
    /\ calls' = calls + 1
    /\ UNCHANGED <<lock, mid>>
    /\ KernelBecomes(State)

\* the trees the calls start from: the empty tree, and the tree two calls
\* of addreg have built, with nodes for the indexes 0 and 3
RegTrees ==
    {{}, addreg(addreg({}, 0, 1, 1, 0).tree, 3, 1, 3, 1).tree}

RegInit == KernelBoot(FALSE) /\ \E t \in RegTrees : SpaceBoot(t)

RegNext ==
    \E c \in {0}, x \in {"mem"} :
        \/ \E addr \in MWords, size \in 0..MaxRegSize, k \in Kinds :
               RegAddreg(c, x, addr, size, k)
        \/ \E addr \in MWords : RegDelreg(c, x, addr)

RegSpec == RegInit /\ [][RegNext]_vars

----------------------------------------------------------------------------
(* Exceptions: the kernel of TlbSpec with users that raise #GP and #PF,   *)
(* with MSR reads that fault in the kernel, and with VM exits that leave  *)
(* the TR hazard behind.                                                   *)

MaxGpEntries == 3

\* an exception in user mode: handle_exc, and if it returns the exception
\* entry returns to user mode through ret_user_iret
UserExc(c, vec) ==
    /\ InUser(c) /\ entries < MaxGpEntries
    /\ LET s0 == [user_ran(State, c) EXCEPT
                     !.regs[current[c]].dst_portal = vec]
           s1 == handle_exc(exc_entry(s0, c, Exc_regs(vec, TRUE, "user")), c)
       IN  Becomes(IF s1.kpc[c] = "returned"
                   THEN Goto(s1, c, "ret_user_iret") ELSE s1)

\* hypercall HC_PD_CTRL, MSR_ACCESS of an EC with passthrough permission
\* that reads an MSR the CPU does not have: the rdmsr of Msr::user_read
\* raises #GP, and when handle_exc has returned sys_pd_ctrl_msr_access
\* (syscall.cpp:553-577) goes on with the carry flag of the frame
GpMsrRead(c) ==
    /\ InUser(c) /\ entries < MaxGpEntries
    /\ is_passthrough(EcPd(current[c]))
    /\ LET s0 == user_ran(State, c)
           s1 == handle_exc(exc_entry(s0, c,
                                      Exc_regs(EXC_GP, FALSE, "user_read")), c)
       IN  Becomes(IF s1.kpc[c] = "returned"
                   THEN sys_finish(s1, c, IF s1.exc_regs[c].cf THEN "BAD_PAR"
                                          ELSE "SUCCESS")
                   ELSE s1)

\* the current EC of CPU c has run a virtual CPU: the VM exit has re-set the
\* TR segment limit and set HZD_TR, and the hypercall returns
VmExit(c) ==
    /\ InUser(c) /\ entries < MaxGpEntries
    /\ "TR" \notin cpu_hzd[c]
    /\ Becomes(sys_finish([user_ran(State, c) EXCEPT
                              !.cpu_hzd[c] = @ \cup {"TR"},
                              !.tr_limit = @ \cup {c}], c, "SUCCESS"))

GpRevoke(c) ==
    /\ entries < MaxGpEntries
    /\ UserSysRevoke(c)

GpTimer(c) ==
    /\ InUser(c) /\ entries < MaxGpEntries
    /\ Becomes(ret_user_iret([user_ran(State, c) EXCEPT
                               !.cpu_hzd[c] = @ \cup {"SCHED"}], c))

GpReply(c) ==
    /\ InUser(c) /\ rcap[current[c]] # NIL
    /\ Becomes(sys_reply([State EXCEPT !.regs[current[c]].status = "NONE"],
                         c, Sel.null, "OK", FALSE))

\* the kernel functions these users reach
GpStep(c) ==
    \/ Schedule(c) \/ Root_invoke(c) \/ Ret_user_sysexit(c)
    \/ Ret_user_iret(c) \/ Send_msg(c) \/ Recv_kern(c) \/ Shootdown_wait(c)

GpNext ==
    \E c \in Cpus :
       \/ \E vec \in {EXC_GP, EXC_PF} : UserExc(c, vec)
       \/ GpMsrRead(c) \/ VmExit(c)
       \/ GpRevoke(c) \/ Nmi(c)
       \/ GpTimer(c) \/ GpReply(c) \/ GpStep(c)

GpSpec == HzdInit /\ [][GpNext]_vars

----------------------------------------------------------------------------
(* Faults: the kernel of Spec with exceptions of the vectors #PF and #MC,  *)
(* taken in user mode and taken in the kernel while it executes a          *)
(* hypercall or delivers a message.                                        *)

MaxExcEntries == 3

FaultVecs == {EXC_PF, EXC_MC}
\* the kernel functions during which an exception is taken
FaultPcs == {"sys_call", "recv_user", "recv_kern", "send_msg_iret",
             "ret_user_sysexit", "ret_user_iret"}

\* an exception taken in user mode: handle_exc, and when it returns the
\* exception entry returns to user mode through ret_user_iret
UserFault(c, vec) ==
    /\ InUser(c) /\ entries < MaxExcEntries
    /\ LET s0 == [user_ran(State, c) EXCEPT
                     !.regs[current[c]].dst_portal = vec]
           s1 == handle_exc(exc_entry(s0, c, Exc_regs(vec, TRUE, "user")), c)
       IN  Becomes(IF s1.kpc[c] = "returned"
                   THEN Goto(s1, c, "ret_user_iret") ELSE s1)

\* an exception taken in the kernel at the function kpc[c]; obj = the
\* faulting address cr2 lies in the OBJ space.  When handle_exc returns the
\* exception entry resumes the kernel where it was interrupted.
KernelFault(c, vec, obj) ==
    /\ kpc[c] \in FaultPcs /\ entries < MaxExcEntries
    /\ LET r == [Exc_regs(vec, FALSE, kpc[c]) EXCEPT !.obj = obj]
           s1 == handle_exc(exc_entry(enter_kernel(State, c), c, r), c)
       IN  Becomes(IF s1.kpc[c] = "returned" THEN Goto(s1, c, kpc[c]) ELSE s1)

ExcCall(c) ==
    /\ entries < MaxExcEntries
    /\ \E sel \in {Sel.pt_s, Sel.pt_t} : SysCallWith(c, sel, {}, 0)

ExcReply(c) ==
    /\ InUser(c) /\ rcap[current[c]] # NIL
    /\ Becomes(sys_reply([State EXCEPT !.regs[current[c]].status = "NONE"],
                         c, Sel.null, "OK", FALSE))

\* the kernel functions these users reach
ExcStep(c) ==
    \/ Schedule(c) \/ Root_invoke(c) \/ Ret_user_sysexit(c)
    \/ Ret_user_iret(c) \/ Idle(c) \/ Sys_finish(c) \/ Send_msg(c)
    \/ Recv_user(c) \/ Recv_kern(c) \/ Dead(c)

ExcNext ==
    \E c \in Cpus :
       \/ \E vec \in FaultVecs : UserFault(c, vec)
       \/ \E vec \in FaultVecs, obj \in BOOLEAN : KernelFault(c, vec, obj)
       \/ ExcCall(c) \/ ExcReply(c) \/ ExcStep(c)

ExcSpec == Init /\ [][ExcNext]_vars

----------------------------------------------------------------------------
(* NMIs: the kernel of TlbSpec with CPUs that go idle.  An EC leaves its   *)
(* CPU by a fault that has no portal; users touch the page and revoke it; *)
(* the idle loop is executed                                               *)
(* instruction by instruction, so that an NMI arrives before the check of  *)
(* the hazards, between the sti and the hlt, or while the CPU sleeps; an   *)
(* interrupt is taken by a CPU of the idle loop only where interrupts are  *)
(* enabled, and its handler raises a hazard.                               *)

MaxNmiEntries == 3

\* #GP in user mode; no EC has a portal for it
NmiFault(c) ==
    /\ InUser(c) /\ entries < MaxNmiEntries
    /\ LET s0 == [user_ran(State, c) EXCEPT
                     !.regs[current[c]].dst_portal = EXC_GP]
           s1 == handle_exc(exc_entry(s0, c, Exc_regs(EXC_GP, TRUE, "user")), c)
       IN  Becomes(IF s1.kpc[c] = "returned"
                   THEN Goto(s1, c, "ret_user_iret") ELSE s1)

\* hypercall HC_REVOKE of the PD's own mapping
NmiRevoke(c) ==
    /\ InUser(c) /\ entries < MaxNmiEntries
    /\ Becomes(sys_revoke(user_ran(State, c), c, FALSE, Sel.null, TRUE))

NmiReply(c) ==
    /\ InUser(c) /\ rcap[current[c]] # NIL
    /\ Becomes(sys_reply([State EXCEPT !.regs[current[c]].status = "NONE"],
                         c, Sel.null, "OK", FALSE))

\* the hazard check of the idle loop and its sti
IdleCheck(c) == kpc[c] = "idle" /\ Becomes(idle(State, c))

\* the hlt of the idle loop
Hlt(c) == kpc[c] \in {"idle_hlt", "hlt_open"} /\ Becomes(hlt(State, c))

\* an interrupt whose handler raises the hazard h is taken by CPU c in the
\* idle loop, where interrupts are enabled: it wakes the sleeping CPU, which
\* goes on behind the hlt, or it returns to the hlt it was taken at
IdleIrq(c, h) ==
    /\ kpc[c] \in {"hlt", "hlt_open"} /\ entries < MaxNmiEntries
    /\ h \notin cpu_hzd[c]
    /\ Becomes(Goto([enter_kernel(State, c) EXCEPT !.cpu_hzd[c] = @ \cup {h}],
                    c, IF kpc[c] = "hlt" THEN "idle" ELSE kpc[c]))

\* the kernel functions these users reach
NmiStep(c) ==
    \/ Schedule(c) \/ Root_invoke(c) \/ Ret_user_sysexit(c)
    \/ Ret_user_iret(c) \/ Send_msg(c) \/ Recv_kern(c) \/ Shootdown_wait(c)
    \/ Dead(c)

NmiNext ==
    \E c \in Cpus :
       \/ NmiFault(c) \/ NmiRevoke(c) \/ NmiReply(c) \/ Nmi(c)
       \/ UserAccess(c)
       \/ IdleCheck(c) \/ Hlt(c)
       \/ \E h \in {"RCU", "SCHED"} : IdleIrq(c, h)
       \/ NmiStep(c)

NmiSpec == HzdInit /\ [][NmiNext]_vars

----------------------------------------------------------------------------
(* Segments: the kernel of HzdSpec with ECs that run a virtual CPU.  The   *)
(* VM exit leaves the data segment registers of the host behind and sets   *)
(* the hazard HZD_DS_ES.                                                   *)

MaxSegEntries == 3

\* the current EC of CPU c has run a virtual CPU: the VM exit has set
\* HZD_DS_ES, and the hypercall returns
SegVmExit(c) ==
    /\ InUser(c) /\ entries < MaxSegEntries
    /\ "DS_ES" \notin cpu_hzd[c]
    /\ Becomes(sys_finish([user_ran(State, c) EXCEPT
                              !.cpu_hzd[c] = @ \cup {"DS_ES"}], c, "SUCCESS"))

SegTimer(c) ==
    /\ InUser(c) /\ entries < MaxSegEntries
    /\ Becomes(ret_user_iret([user_ran(State, c) EXCEPT
                               !.cpu_hzd[c] = @ \cup {"SCHED"}], c))

SegRecall(c) ==
    /\ InUser(c) /\ entries < MaxSegEntries
    /\ Becomes(sys_ec_ctrl(user_ran(State, c), c, "RECALL", Sel.ec_a))

SegReply(c) ==
    /\ InUser(c) /\ rcap[current[c]] # NIL
    /\ Becomes(sys_reply([State EXCEPT !.regs[current[c]].status = "NONE"],
                         c, Sel.null, "OK", FALSE))

\* the kernel functions these users reach
SegStep(c) ==
    \/ Schedule(c) \/ Root_invoke(c) \/ Ret_user_sysexit(c)
    \/ Ret_user_iret(c) \/ Send_msg(c) \/ Recv_kern(c)

SegNext ==
    \E c \in Cpus :
       \/ SegVmExit(c) \/ SegTimer(c) \/ SegRecall(c) \/ SegReply(c)
       \/ SegStep(c)

SegSpec == HzdInit /\ [][SegNext]_vars

----------------------------------------------------------------------------
(* Locking: the CPUs call the operations of the spaces at the same time.  *)
(* An operation is a sequence of steps: the guard gets the lock, the tree  *)
(* is looked up or changed, the guard releases the lock.  Mdb::insert and  *)
(* Mdb::remove take two steps, and the tree is in the middle of a change   *)
(* between them.                                                           *)

MaxLockCalls == 3

LockIdxs == {1, 2, 3}
LockAddrs == {1 * 2^PAGE_BITS, 2 * 2^PAGE_BITS}
LockRegions == {<<1, 3>>, <<0, 0>>}
LockNodes == {Mdb(x, 2, 2, 0, 1, 0) : x \in Spaces}

\* CPU c, which executes no operation, may call one
CanCall(c) == sp[c].pc \in {"idle", "done"} /\ calls < MaxLockCalls

CallTreeLookup(c, x, idx) ==
    /\ CanCall(c)
    /\ sp' = [sp EXCEPT ![c] = tree_lookup(x, idx)]
    /\ calls' = calls + 1
    /\ UNCHANGED <<tree, lock, mid>>
    /\ KernelBecomes(State)

CallTreeInsert(c, node) ==
    /\ CanCall(c)
    /\ sp' = [sp EXCEPT ![c] = tree_insert(node)]
    /\ calls' = calls + 1
    /\ UNCHANGED <<tree, lock, mid>>
    /\ KernelBecomes(State)

CallTreeRemove(c, node) ==
    /\ CanCall(c) /\ node \in tree[node.space]
    /\ sp' = [sp EXCEPT ![c] = tree_remove(node)]
    /\ calls' = calls + 1
    /\ UNCHANGED <<tree, lock, mid>>
    /\ KernelBecomes(State)

CallAddreg(c, x, addr, size) ==
    /\ CanCall(c)
    /\ sp' = [sp EXCEPT ![c] = addreg_begin(x, addr, size, 3, 1)]
    /\ calls' = calls + 1
    /\ UNCHANGED <<tree, lock, mid>>
    /\ KernelBecomes(State)

CallDelreg(c, x, addr) ==
    /\ CanCall(c)
    /\ sp' = [sp EXCEPT ![c] = delreg_begin(x, addr)]
    /\ calls' = calls + 1
    /\ UNCHANGED <<tree, lock, mid>>
    /\ KernelBecomes(State)

\* the guard's constructor: the spinlock is taken when it is free
Acquire(c) ==
    LET x == sp[c].space
    IN  /\ sp[c].pc = "lock" /\ lock[x] = NoCpu
        /\ lock' = [lock EXCEPT ![x] = c]
        /\ sp' = [sp EXCEPT ![c].pc = "locked"]
        /\ UNCHANGED <<tree, mid, calls>>
        /\ KernelBecomes(State)

\* Mdb::lookup in tree_lookup and in delreg
Lookup(c) ==
    LET r == sp[c]
        x == r.space
        node == Mdb_lookup(tree[x], r.idx)
    IN  /\ r.pc = "locked"
        /\ \/ r.op = "tree_lookup"
           \/ r.op = "delreg" /\ r.part = 0 /\ r.node = NoNode
        /\ sp' = [sp EXCEPT ![c] =
                    [r EXCEPT !.node = node,
                              !.torn = mid[x] # NoCpu,
                              !.pc = IF r.op = "delreg" /\ node # NoNode
                                     THEN "remove" ELSE "unlock"]]
        /\ UNCHANGED <<tree, lock, mid, calls>>
        /\ KernelBecomes(State)

\* Mdb::insert or Mdb::remove begins
Begin(c) ==
    LET r == sp[c]
        x == r.space
    IN  /\ \/ r.pc = "locked" /\ r.op \in {"tree_insert", "tree_remove"}
           \/ r.pc = "locked" /\ InAddreg(r) /\ r.size # 0
           \/ r.pc = "remove"
        /\ mid' = [mid EXCEPT ![x] = c]
        /\ sp' = [sp EXCEPT ![c] = [r EXCEPT !.pc = "mid",
                                             !.torn = mid[x] # NoCpu]]
        /\ UNCHANGED <<tree, lock, calls>>
        /\ KernelBecomes(State)

\* Mdb::insert or Mdb::remove ends
End(c) ==
    LET r == sp[c]
        x == r.space
    IN  /\ r.pc = "mid"
        /\ tree' = [tree EXCEPT ![x] = Mutated(@, r)]
        /\ mid' = [mid EXCEPT ![x] = NoCpu]
        /\ sp' = [sp EXCEPT ![c] = AfterMutation(r)]
        /\ UNCHANGED <<lock, calls>>
        /\ KernelBecomes(State)

\* the guard's destructor at the end of its block: the spinlock is released
Unlock(c) ==
    LET r == sp[c]
        x == r.space
    IN  /\ \/ r.pc = "unlock"
           \/ r.pc = "locked" /\ InAddreg(r) /\ r.size = 0
        /\ lock' = [lock EXCEPT ![x] = IF @ = c THEN NoCpu ELSE @]
        /\ sp' = [sp EXCEPT ![c] = AfterUnlock(r)]
        /\ UNCHANGED <<tree, mid, calls>>
        /\ KernelBecomes(State)

LockNext ==
    \E c \in Cpus :
       \/ \E x \in Spaces, idx \in LockIdxs : CallTreeLookup(c, x, idx)
       \/ \E node \in LockNodes : CallTreeInsert(c, node)
       \/ \E node \in LockNodes : CallTreeRemove(c, node)
       \/ \E x \in Spaces, reg \in LockRegions :
             CallAddreg(c, x, reg[1], reg[2])
       \/ \E x \in Spaces, addr \in LockAddrs : CallDelreg(c, x, addr)
       \/ Acquire(c) \/ Lookup(c) \/ Begin(c) \/ End(c) \/ Unlock(c)

LockSpec == Init /\ [][LockNext]_vars

----------------------------------------------------------------------------
(* Properties *)

\* a step in which CPU c executes sys_call on selector sel with flags fl:
\* the hypercall entry, or the continuation sys_call of an EC that helped or
\* was rewound
IsSysCallFl(c, sel, fl) ==
    \/ \E u \in Msgs : SysCallWith(c, sel, fl, u)
    \/ Sys_call(c) /\ regs[current[c]].sel = sel /\ regs[current[c]].flags = fl

IsSysCall(c, sel) == \E fl \in CallFlags : IsSysCallFl(c, sel, fl)

\* the linkage (cont, partner, rcap) of every EC outside X is left alone
LinkageKept(X) ==
    \A e \in Ecs \ X :
       cont'[e] = cont[e] /\ partner'[e] = partner[e] /\ rcap'[e] = rcap[e]

\* the portal a selector names, for a selector that names one
PtOf(sel) == Space_obj_lookup(State, sel).pt
IsPt(sel) == Space_obj_lookup(State, sel).type = "PT"
\* sel names a portal whose server is bound to the CPU of EC e
LocalPt(sel, e) == IsPt(sel) /\ EcCpu(PtOf(sel).ec) = EcCpu(e)

\* C1: a sys_call on a portal whose server S is on the caller's CPU and has
\* no continuation sets C.cont = ret_user_sysexit, C.partner = S, S.rcap = C,
\* S.cont = recv_user, loads the portal's id and ip into S's frame and runs S
\* on the scheduling context C was running on; the linkage of every other EC
\* (and C's rcap, S's partner) is unchanged.
C1_CallFreeServer ==
    [][\A c \in Cpus, sel \in CallSels :
         LET C == current[c]
         IN  (IsSysCall(c, sel) /\ LocalPt(sel, C) /\ cont[PtOf(sel).ec] = "nil")
             => LET S == PtOf(sel).ec
                IN  /\ cont'[C] = "ret_user_sysexit" /\ partner'[C] = S
                    /\ rcap'[S] = C /\ cont'[S] = "recv_user"
                    /\ regs'[S].pt = PtOf(sel).id /\ regs'[S].ip = PtOf(sel).ip
                    /\ current'[c] = S /\ kpc'[c] = "recv_user"
                    /\ sc_current'[c] = sc_current[c]
                    /\ rcap'[C] = rcap[C] /\ partner'[S] = partner[S]
                    /\ LinkageKept({C, S})]_vars

\* C1 witness: A's call has just been delivered to S, which runs on SC_A
C1_Witness ==
    /\ kpc[0] = "recv_user" /\ current[0] = "S" /\ sc_current[0] = "SC_A"
    /\ cont["A"] = "ret_user_sysexit" /\ partner["A"] = "S" /\ rcap["S"] = "A"
    /\ regs["S"].pt = Pt_S.id

\* C3: sys_call ends with status BAD_CAP when the selector holds no portal
\* and with BAD_CPU when the portal's server is bound to another CPU; the
\* caller stays current and no EC's cont, partner or rcap changes.
C3_CallBadCapBadCpu ==
    [][\A c \in Cpus, sel \in CallSels :
         LET C == current[c]
         IN  (IsSysCall(c, sel) /\ ~LocalPt(sel, C))
             => /\ regs'[C].status = IF IsPt(sel) THEN "BAD_CPU" ELSE "BAD_CAP"
                /\ kpc'[c] = "ret_user_sysexit" /\ current'[c] = C
                /\ LinkageKept({})]_vars

\* C3 witness: a call on the portal of R (bound to CPU 1) finished BAD_CPU
C3_Witness ==
    /\ kpc[0] = "ret_user_sysexit"
    /\ regs[current[0]].sel = Sel.pt_r /\ regs[current[0]].status = "BAD_CPU"

\* C4: sys_call with DISABLE_BLOCKING on a portal whose local server is busy
\* ends with status COM_TIM without helping: the caller stays current, the
\* help counter and every EC's cont, partner and rcap are unchanged, and so
\* is the server's frame.
C4_CallBusyNoBlocking ==
    [][\A c \in Cpus, sel \in CallSels :
         LET C == current[c]
         IN  (/\ IsSysCallFl(c, sel, {"DISABLE_BLOCKING"})
              /\ LocalPt(sel, C) /\ cont[PtOf(sel).ec] # "nil")
             => LET S == PtOf(sel).ec
                IN  /\ regs'[C].status = "COM_TIM"
                    /\ kpc'[c] = "ret_user_sysexit" /\ current'[c] = C
                    /\ ctr_loop' = ctr_loop /\ sc_current' = sc_current
                    /\ LinkageKept({})
                    /\ S # C => regs'[S] = regs[S]]_vars

\* C4 witness: a non-blocking call on a busy server other than the caller
\* finished COM_TIM
C4_Witness ==
    \E sel \in CallSels :
       LET C == current[0]
       IN  /\ kpc[0] = "ret_user_sysexit" /\ regs[C].status = "COM_TIM"
           /\ regs[C].sel = sel /\ "DISABLE_BLOCKING" \in regs[C].flags
           /\ LocalPt(sel, C) /\ PtOf(sel).ec # C
           /\ cont[PtOf(sel).ec] \notin {"nil", "dead"}

\* a step in which the current EC of CPU c executes the hypercall sys_reply
IsSysReply(c, smsel, d, u) == \E f \in BOOLEAN : SysReplyWith(c, smsel, d, f, u)

\* the selector of a reply names a semaphore
NamesSm(smsel) == smsel # Sel.null /\ Space_obj_lookup(State, smsel).type = "SM"

\* after the step CPU c runs EC e at the continuation k
RunsAt(c, e, k) == current'[c] = e /\ kpc'[c] = k

\* after the step CPU c has activated the EC of its scheduling context: it
\* runs the EC at the end of that EC's partner chain at its continuation,
\* or has parked the scheduling context on it if it is blocked
ActivatedOwner(c) ==
    LET X == chain_end(partner', ScEc(sc_current[c]), Cardinality(Ecs))
    IN  IF InSeq(sm_queue', X) \/ cont'[X] = "nil"
        THEN /\ kpc'[c] = "schedule_suspend"
             /\ scq'[X] = Append(scq[X], sc_current[c])
        ELSE RunsAt(c, X, cont'[X])

\* the current scheduling context of CPU c is C's and holds its last reference
LastRefOf(c, C) == ScEc(sc_current[c]) = C /\ sc_refs[sc_current[c]] = 1

\* C2 as stated: after a sys_reply of S with caller C that ran to its end,
\* S.cont = nil, S.rcap is cleared, C.partner is cleared and the CPU
\* continues with C at C's saved continuation, directly or by activating the
\* EC of the current scheduling context; with the last reference of C's own
\* SC it reschedules instead.
C2_AsStated ==
    [][\A c \in Cpus, smsel \in ReplySms, d \in XferResults, u \in Msgs :
         LET S == current[c]
             C == rcap[S]
         IN  (IsSysReply(c, smsel, d, u) /\ C # NIL /\ kpc'[c] # "panic")
             => /\ cont'[S] = "nil" /\ rcap'[S] = NIL /\ partner'[C] = NIL
                /\ IF LastRefOf(c, C) THEN kpc'[c] = "schedule_suspend"
                   ELSE /\ cont'[C] = cont[C]
                        /\ RunsAt(c, C, cont[C]) \/ ActivatedOwner(c)]_vars

\* C2 as amended: a sys_reply of S with caller C whose typed items cannot be
\* delegated stops the kernel with S still holding C.  Every other one sets
\* S.cont = nil and clears S.rcap and C.partner; with the last reference of
\* C's own SC the CPU reschedules; else, if the reply names no semaphore,
\* the CPU continues with C at C's saved continuation, directly or by
\* activating the EC of the current scheduling context; if it names a
\* semaphore, a saved continuation ret_user_sysexit of C is replaced by
\* sys_call and C downs the semaphore: with a positive counter the counter
\* is decremented and the CPU continues as before, with a zero counter C is
\* queued on the semaphore and the CPU reschedules.
C2_Reply ==
    [][\A c \in Cpus, smsel \in ReplySms, d \in XferResults, u \in Msgs :
         LET S == current[c]
             C == rcap[S]
             k == IF NamesSm(smsel) /\ cont[C] = "ret_user_sysexit"
                  THEN "sys_call" ELSE cont[C]
         IN  (IsSysReply(c, smsel, d, u) /\ C # NIL)
             => IF tcnt(u) > 0 /\ d # "OK"
                THEN kpc'[c] = "panic" /\ rcap'[S] = C /\ partner'[C] = S
                ELSE /\ cont'[S] = "nil" /\ rcap'[S] = NIL /\ partner'[C] = NIL
                     /\ cont'[C] = k
                     /\ IF LastRefOf(c, C) THEN kpc'[c] = "schedule_suspend"
                        ELSE IF ~NamesSm(smsel)
                        THEN RunsAt(c, C, k) \/ ActivatedOwner(c)
                        ELSE IF sm_counter > 0
                        THEN /\ sm_counter' = sm_counter - 1
                             /\ RunsAt(c, C, k) \/ ActivatedOwner(c)
                        ELSE /\ sm_queue' = Append(sm_queue, C)
                             /\ kpc'[c] \in {"schedule", "schedule_suspend"}]_vars

\* C2 witness: S has replied to A without a semaphore and A is about to
\* resume at its saved continuation on its own scheduling context
C2_Witness ==
    /\ kpc[0] = "ret_user_sysexit" /\ current[0] = "A" /\ sc_current[0] = "SC_A"
    /\ cont["A"] = "ret_user_sysexit" /\ cont["S"] = "nil"
    /\ rcap["S"] = NIL /\ partner["A"] = NIL
    /\ regs["S"].pt = Pt_S.id /\ regs["A"].sel = Sel.pt_s

\* C9: sys_reply of an EC S without caller (rcap = nil) transfers nothing
\* (the UTCB of every other EC and the semaphore are unchanged, whatever
\* typed items S's UTCB names), resumes no caller and gives the CPU to the
\* scheduler: a global EC suspends its scheduling context, a local one
\* activates the EC of the current scheduling context; S.cont becomes nil and
\* no other EC's cont, partner or rcap changes.
C9_ReplyNoCaller ==
    [][\A c \in Cpus, smsel \in ReplySms, d \in XferResults, u \in Msgs :
         LET S == current[c]
         IN  (IsSysReply(c, smsel, d, u) /\ rcap[S] = NIL)
             => /\ \A e \in Ecs \ {S} : utcb'[e] = utcb[e]
                /\ sm_counter' = sm_counter /\ sm_queue' = sm_queue
                /\ cont'[S] = "nil" /\ partner'[S] = partner[S]
                /\ rcap'[S] = NIL /\ LinkageKept({S})
                /\ IF EcGlb(S) THEN kpc'[c] = "schedule_suspend"
                   ELSE ActivatedOwner(c)]_vars

\* C9 witness: the global EC A, which has no caller, has executed sys_reply
C9_Witness ==
    /\ kpc[0] = "schedule_suspend" /\ current[0] = "A"
    /\ cont["A"] = "nil" /\ rcap["A"] = NIL /\ partner["A"] = NIL

\* C10: a sys_reply to a caller C whose typed items cannot be delegated
\* fails with status OOM (allocation failure) or BAD_PAR (invalid mapping),
\* the caller is woken all the same and the kernel does not stop.
C10_ReplyDelegationFails ==
    [][\A c \in Cpus, smsel \in ReplySms, d \in XferResults, u \in Msgs :
         LET S == current[c]
             C == rcap[S]
         IN  (IsSysReply(c, smsel, d, u) /\ C # NIL /\ tcnt(u) > 0 /\ d # "OK")
             => /\ kpc'[c] # "panic"
                /\ partner'[C] = NIL /\ rcap'[S] = NIL
                /\ regs'[S].status = IF d = "OUT_OF_MEMORY" THEN "OOM"
                                      ELSE "BAD_PAR"]_vars

\* C6: in every reachable state and for every EC, partner is set only if
\* cont is set, and rcap is set only while the EC services an IPC: it has a
\* continuation (it has not replied) and the EC in rcap is the caller whose
\* partner it is.
C6_LinkageInvariant ==
    \A e \in Ecs :
       /\ partner[e] # NIL => cont[e] # "nil"
       /\ rcap[e] # NIL => cont[e] # "nil" /\ partner[rcap[e]] = e

\* C6 witness: a chain of two services, A served by S and S served by T
C6_Witness ==
    /\ rcap["S"] = "A" /\ partner["A"] = "S"
    /\ rcap["T"] = "S" /\ partner["S"] = "T" /\ kpc[0] = "user"

\* the vectors send_msg is executed with
MsgVecs == ExcVecs \cup {EXC_STARTUP, EXC_RECALL}

\* a step in which CPU c executes send_msg<ret_user_iret> for vector v: the
\* exception entry, or the continuation send_msg of an EC
IsSendMsg(c, v) ==
    \/ ExceptionWith(c, v)
    \/ Send_msg(c) /\ regs[current[c]].dst_portal = v

\* the capability send_msg looks up for EC e and vector v
EvtCap(e, v) == Space_obj_lookup(State, EcEvt(e) + v)
\* the event portal of e for v exists and its server is on e's CPU
EvtPtOk(e, v) ==
    EvtCap(e, v).type = "PT" /\ EcCpu(EvtCap(e, v).pt.ec) = EcCpu(e)

\* an EC that is dead stays dead: it never returns to user
DeadStaysDead == \A e \in Ecs : cont[e] = "dead" => cont'[e] = "dead"

\* C7 as stated: when the event portal of an exception is missing, no
\* portal, or its server is on another CPU, the EC is killed (cont = dead,
\* for good) and its caller, if any, gets the continuation that finishes its
\* call with COM_ABT, whatever the caller's own continuation was.
C7_AsStated ==
    [][/\ DeadStaysDead
       /\ \A c \in Cpus, v \in MsgVecs :
            LET E == current[c]
                K == rcap[E]
            IN  (IsSendMsg(c, v) /\ ~EvtPtOk(E, v))
                => /\ cont'[E] = "dead"
                   /\ K # NIL => cont'[K] = "sys_finish_COM_ABT"]_vars

\* C7 as amended: ... the EC is killed (cont = dead, for good); a caller
\* that waits in a sys_call (continuation ret_user_sysexit) gets the
\* continuation that finishes its call with COM_ABT, a caller with any other
\* continuation (it had sent an exception message) is killed as well: its
\* continuation becomes dead.  The caller's link to the EC is cleared.
C7_ExceptionNoPortal ==
    [][/\ DeadStaysDead
       /\ \A c \in Cpus, v \in MsgVecs :
            LET E == current[c]
                K == rcap[E]
            IN  (IsSendMsg(c, v) /\ ~EvtPtOk(E, v))
                => /\ cont'[E] = "dead"
                   /\ K # NIL =>
                        /\ cont'[K] = IF cont[K] = "ret_user_sysexit"
                                       THEN "sys_finish_COM_ABT" ELSE "dead"
                        /\ partner'[K] = NIL /\ rcap'[E] = NIL]_vars

\* C7 witness: S, serving a call of A, was killed and A finishes with COM_ABT
C7_Witness ==
    /\ cont["S"] = "dead" /\ rcap["S"] = NIL
    /\ current[0] = "A" /\ kpc[0] = "ret_user_sysexit"
    /\ regs["A"].status = "COM_ABT"

\* C8: send_msg<R> looks up the portal at evt + dst_portal; when its server
\* S is on the sender's CPU and has no continuation, C.cont = R,
\* C.partner = S, S.rcap = C, S.cont = recv_kern, the portal's transfer
\* descriptor is stored in C's frame, the portal's id and ip are loaded into
\* S's frame and S runs on the scheduling context C was running on.
C8_SendMsgFreeServer ==
    [][\A c \in Cpus, v \in MsgVecs :
         LET C == current[c]
         IN  (IsSendMsg(c, v) /\ EvtPtOk(C, v) /\ cont[EvtCap(C, v).pt.ec] = "nil")
             => LET pt == EvtCap(C, v).pt
                    S == pt.ec
                IN  /\ cont'[C] = "ret_user_iret" /\ partner'[C] = S
                    /\ rcap'[S] = C /\ cont'[S] = "recv_kern"
                    /\ regs'[C].mtd = pt.mtd
                    /\ regs'[S].pt = pt.id /\ regs'[S].ip = pt.ip
                    /\ RunsAt(c, S, "recv_kern")
                    /\ sc_current'[c] = sc_current[c]
                    /\ LinkageKept({C, S})]_vars

\* C8 witness: the page fault of A is delivered to S through A's event
\* portal, with the transfer descriptor of that portal
C8_Witness ==
    /\ kpc[0] = "recv_kern" /\ current[0] = "S" /\ sc_current[0] = "SC_A"
    /\ cont["A"] = "ret_user_iret" /\ partner["A"] = "S" /\ rcap["S"] = "A"
    /\ regs["A"].dst_portal = EXC_PF /\ regs["A"].mtd = Pt_S.mtd

\* CPU c enters user mode with this step
EntersUser(c) == kpc[c] # "user" /\ kpc'[c] = "user"

\* no EC executes user code while its partner link is set
NoUserWhileLinked == \A c \in Cpus : InUser(c) => partner[current[c]] = NIL

\* a reply that is delivered to a waiting sys_call copies the server's UTCB
\* into the caller's
ReplyCarriesMessage ==
    \A e \in Ecs :
       (outcome[e] = "called" /\ outcome'[e] = "replied")
       => utcb'[e] = utcb'[partner[e]]

\* C5 as stated: when an EC whose sys_call transferred control to a server
\* next enters user mode, exactly one of three things has happened: the
\* server replied (the caller resumes through ret_user_sysexit, with the
\* reply message and no error status), the server died (status COM_ABT), or
\* the call timed out (status COM_TIM); and no EC executes user code while
\* its partner link is set.
C5_AsStated ==
    /\ []NoUserWhileLinked
    /\ [][/\ ReplyCarriesMessage
          /\ \A c \in Cpus :
               LET E == current[c]
                   st == regs[E].status
               IN  (EntersUser(c) /\ outcome[E] # "none")
                   => \/ /\ outcome[E] = "replied" /\ st = "SUCCESS"
                         /\ kpc[c] = "ret_user_sysexit"
                      \/ outcome[E] = "aborted" /\ st = "COM_ABT"
                      \/ outcome[E] = "reissued" /\ st = "COM_TIM"]_vars

\* C5 as amended: ... exactly one of these has happened: the server replied
\* without naming a semaphore (the caller resumes through ret_user_sysexit
\* with the reply message), the server died (status COM_ABT), or the server
\* replied naming a semaphore, which re-issued the call, and the re-issued
\* sys_call ended without transferring control, with its own status
\* (COM_TIM, BAD_CAP or BAD_CPU); and no EC executes user code while its
\* partner link is set.
C5_CallOutcome ==
    /\ []NoUserWhileLinked
    /\ [][/\ ReplyCarriesMessage
          /\ \A c \in Cpus :
               LET E == current[c]
                   st == regs[E].status
               IN  (EntersUser(c) /\ outcome[E] # "none")
                   => \/ /\ outcome[E] = "replied" /\ st = "SUCCESS"
                         /\ kpc[c] = "ret_user_sysexit"
                      \/ outcome[E] = "aborted" /\ st = "COM_ABT"
                      \/ /\ outcome[E] = "reissued"
                         /\ st \in {"COM_TIM", "BAD_CAP", "BAD_CPU"}]_vars

\* C5 witness: A's call was answered with a semaphore, re-issued after the
\* semaphore was upped, and found the server busy: A returns with COM_TIM
C5_Witness ==
    /\ kpc[0] = "ret_user_sysexit" /\ current[0] = "A"
    /\ outcome["A"] = "reissued" /\ regs["A"].status = "COM_TIM"
    /\ cpu_hzd[0] = {} /\ hzd["A"] = {}

\* recv_user hands the caller's message to the server, and the message of
\* an EC whose call is with a server is the one it entered the call with
CallCarriesMessage ==
    /\ \A c \in Cpus :
          (Recv_user(c) /\ kpc'[c] # "panic")
          => utcb'[current[c]] = utcb[rcap[current[c]]]
    /\ \A e \in Ecs :
          (outcome'[e] = "called" /\ at_call'[e] # NoCall)
          => utcb'[e] = at_call'[e].utcb

\* the reply to the waiting call of e, answered with the message e had sent,
\* leaves the server free and unlinked, as it was before the call
EchoFreesServer ==
    \A e \in Ecs :
       (outcome[e] = "called" /\ at_call'[e].echo)
       => LET S == partner[e]
          IN  cont'[S] = "nil" /\ partner'[S] = NIL /\ rcap'[S] = NIL

Activated(c, e) ==
    LET X == chain_end(partner', e, Cardinality(Ecs))
    IN  IF InSeq(sm_queue', X) \/ cont'[X] = "nil"
        THEN /\ kpc'[c] = "schedule_suspend"
             /\ scq'[X] = Append(scq[X], sc_current[c])
        ELSE RunsAt(c, X, cont'[X])

\* CPU c is about to re-execute the sys_call of an EC C that helps a busy
\* server whose partner chain ends at C itself: a cycle
HelpCycle(c) ==
    LET C == current[c]
        sel == regs[C].sel
    IN  /\ kpc[c] = "sys_call" /\ regs[C].flags = {} /\ LocalPt(sel, C)
        /\ cont[PtOf(sel).ec] \notin {"nil", "dead"}
        /\ chain_end(partner, PtOf(sel).ec, Cardinality(Ecs)) = C

\* the call of the current EC of CPU c has ended with COM_TIM
TimedOut(c) ==
    kpc[c] = "ret_user_sysexit" /\ regs[current[c]].status = "COM_TIM"

\* the continuations that execute help
HelpConts == {"sys_call", "send_msg_iret"}

HelpedChain ==
    /\ cont["A"] = "sys_call" /\ regs["A"].sel = Sel.pt_s
    /\ sc_current[0] = "SC_A"
    /\ rcap["S"] = "B" /\ partner["S"] = "T" /\ partner["T"] = NIL

\* EC e executes user code
UserRuns(e) == kpc[EcCpu(e)] = "user" /\ current[EcCpu(e)] = e

\* C13: (1) when A executes its sys_call while S is busy and blocked in a
\* call to T, A's scheduling context runs T, the end of the partner chain;
\* (2) a reply of T resumes S, and when S, running on A's scheduling
\* context, replies to its own caller, S is free and A executes its sys_call
\* again, which is then delivered to S; (3) the chain unwinds in order: A's
\* wait ends only by the delivery of its call to the free S, and S becomes
\* free only by its own reply, executed in user mode after its call to T
\* has returned; (4) with servers that reply, S returns to user, B's call is
\* answered, A's call is delivered to S and A returns to user.
C13_ChainHelp ==
    /\ [][/\ ((ChainCall(0) \/ Sys_call(0)) /\ current[0] = "A"
              /\ partner["S"] = "T" /\ partner["T"] = NIL)
             => /\ RunsAt(0, "T", cont["T"]) /\ sc_current'[0] = sc_current[0]
                /\ cont'["A"] = "sys_call"
          /\ (ChainReply(0) /\ current[0] = "T" /\ rcap["T"] = "S")
             => partner'["S"] = NIL /\ RunsAt(0, "S", cont["S"])
          /\ (ChainReply(0) /\ current[0] = "S" /\ rcap["S"] = "B"
              /\ sc_current[0] = "SC_A" /\ cont["A"] = "sys_call")
             => cont'["S"] = "nil" /\ partner'["B"] = NIL
                /\ RunsAt(0, "A", "sys_call")
          /\ (Sys_call(0) /\ current[0] = "A" /\ cont["S"] = "nil")
             => rcap'["S"] = "A" /\ RunsAt(0, "S", "recv_user")
          /\ (cont["A"] = "sys_call" /\ cont'["A"] # "sys_call")
             => cont["S"] = "nil" /\ rcap'["S"] = "A"
          /\ (cont["S"] # "nil" /\ cont'["S"] = "nil")
             => UserRuns("S") /\ partner["S"] = NIL]_vars
    /\ [](\A c \in Cpus : kpc[c] \in ChainPcs \cup {"user", "hlt"})
    /\ HelpedChain ~> (UserRuns("S") /\ partner["S"] = NIL)
    /\ HelpedChain ~> (UserRuns("B") /\ partner["B"] = NIL)
    /\ HelpedChain ~> (rcap["S"] = "A")
    /\ HelpedChain ~> (UserRuns("A") /\ partner["A"] = NIL)

\* C13 witness: T, the end of the chain B -> S -> T, executes user code on
\* the scheduling context of A, which has helped S
C13_Witness == HelpedChain /\ UserRuns("T") /\ rcap["T"] = "S"

----------------------------------------------------------------------------
(* Hazards *)

\* the hazards a return path of CPU c samples: the per-CPU word or'ed with
\* the word of the current EC
Pending(c) == cpu_hzd[c] \cup hzd[current[c]]

\* a step in which CPU c executes the return path ret_user_sysexit
ViaSysexit(c) == Ret_user_sysexit(c)

\* a step in which CPU c executes the return path ret_user_iret, as the
\* continuation it is at or at the end of the reschedule interrupt
ViaIret(c) == Ret_user_iret(c) \/ (IpiRke(c) /\ kpc[c] = "user")

\* C14: with HZD_RECALL set for the current EC no step enters user mode;
\* the return path that finds it (and no SCHED hazard) clears it, sets
\* dst_portal = EXC_RECALL, redirects the frame to the iret frame if the
\* path is ret_user_sysexit (and leaves the frame as it is if the path is
\* ret_user_iret), and continues at send_msg<ret_user_iret>,
\* which hands the message to the free server of the event portal with the
\* EC's continuation ret_user_iret; a return path sends EXC_RECALL only by
\* consuming the hazard, and a RECALL request for an EC whose hazard is set
\* changes neither the hazard words nor the pending IPIs.
C14_RecallServiced ==
    [][\A c \in Cpus :
         LET cur == current[c]
             rec == "RECALL" \in hzd[cur]
         IN  /\ (kpc'[c] = "user" /\ (kpc[c] # "user" \/ ViaIret(c)))
                => "RECALL" \notin hzd[current'[c]]
             /\ ((ViaSysexit(c) \/ ViaIret(c)) /\ rec /\ "SCHED" \notin Pending(c))
                => /\ hzd'[cur] = hzd[cur] \ {"RECALL"}
                   /\ regs'[cur].dst_portal = EXC_RECALL
                   /\ regs'[cur].iret_frame
                         = (ViaSysexit(c) \/ regs[cur].iret_frame)
                   /\ kpc'[c] = "send_msg_iret" /\ current'[c] = cur
             /\ ((ViaSysexit(c) \/ ViaIret(c)) /\ kpc'[c] = "send_msg_iret"
                   /\ regs'[cur].dst_portal = EXC_RECALL)
                => rec /\ "RECALL" \notin hzd'[cur]
             /\ (Send_msg(c) /\ regs[cur].dst_portal = EXC_RECALL
                   /\ IsPt(EcEvt(cur) + EXC_RECALL)
                   /\ LocalPt(EcEvt(cur) + EXC_RECALL, cur)
                   /\ cont[PtOf(EcEvt(cur) + EXC_RECALL).ec] = "nil")
                => LET h == PtOf(EcEvt(cur) + EXC_RECALL).ec
                   IN  /\ cont'[cur] = "ret_user_iret" /\ partner'[cur] = h
                       /\ rcap'[h] = cur /\ current'[c] = h
                       /\ kpc'[c] = "recv_kern"
             /\ \A sel \in EcCtrlSels :
                   LET ec == cast_ec(Space_obj_lookup(State, sel))
                   IN  (SysEcCtrlWith(c, "RECALL", sel) /\ ec # NIL
                          /\ "RECALL" \in hzd[ec])
                       => hzd' = hzd /\ cpu_hzd' = cpu_hzd /\ ipi' = ipi
      ]_vars

\* the handler R of G's event portal holds the EXC_RECALL message of G, whose
\* hazard is clear, while a second EC has been recalled through ret_user_sysexit
C14_Witness ==
    /\ partner["G"] = "R" /\ rcap["R"] = "G" /\ cont["G"] = "ret_user_iret"
    /\ regs["G"].dst_portal = EXC_RECALL /\ "RECALL" \notin hzd["G"]
    /\ regs["A"].iret_frame /\ regs["A"].dst_portal = EXC_RECALL

\* a step in which the current EC of CPU c executes sys_ec_ctrl RECALL on a
\* selector that names EC ec with PERM_EC_CTRL
IsRecall(c, sel, ec) ==
    SysEcCtrlWith(c, "RECALL", sel) /\ cast_ec(Space_obj_lookup(State, sel)) = ec

\* what sys_ec_ctrl does with a capability that is no EC capability with
\* PERM_EC_CTRL (BAD_CAP, no hazard set, no IPI) and with an unknown
\* operation (BAD_PAR)
EcCtrlRejects(c) ==
    \A sel \in EcCtrlSels :
       /\ IsRecall(c, sel, NIL)
          => /\ regs'[current[c]].status = "BAD_CAP"
             /\ hzd' = hzd /\ cpu_hzd' = cpu_hzd /\ ipi' = ipi
       /\ SysEcCtrlWith(c, "OTHER", sel)
          => /\ regs'[current[c]].status = "BAD_PAR"
             /\ hzd' = hzd /\ cpu_hzd' = cpu_hzd /\ ipi' = ipi

\* C15 as stated: RECALL on a valid EC capability sets HZD_RECALL of the
\* target, sends the reschedule IPI to the target's CPU whenever that is not
\* the caller's CPU, and returns SUCCESS; an invalid capability returns
\* BAD_CAP and sets no hazard; an unknown operation returns BAD_PAR.
C15_AsStated ==
    [][\A c \in Cpus :
         /\ \A sel \in EcCtrlSels, ec \in Ecs :
               IsRecall(c, sel, ec)
               => /\ "RECALL" \in hzd'[ec]
                  /\ EcCpu(ec) # c => EcCpu(ec) \in ipi'
                  /\ regs'[current[c]].status = "SUCCESS"
         /\ EcCtrlRejects(c)
      ]_vars

\* C15: RECALL on a valid EC capability sets HZD_RECALL of the target and
\* changes no other hazard, returns SUCCESS, and sends the reschedule IPI to
\* the target's CPU exactly when the hazard was not set before, that CPU is
\* not the caller's and the target is the EC current on it; an invalid
\* capability returns BAD_CAP and sets no hazard; an unknown operation
\* returns BAD_PAR.
C15_Recall ==
    [][\A c \in Cpus :
         /\ \A sel \in EcCtrlSels, ec \in Ecs :
               IsRecall(c, sel, ec)
               => /\ hzd' = [hzd EXCEPT ![ec] = @ \cup {"RECALL"}]
                  /\ cpu_hzd' = cpu_hzd
                  /\ ipi' = IF /\ "RECALL" \notin hzd[ec] /\ EcCpu(ec) # c
                                /\ current[EcCpu(ec)] = ec
                             THEN ipi \cup {EcCpu(ec)} ELSE ipi
                  /\ regs'[current[c]].status = "SUCCESS"
         /\ EcCtrlRejects(c)
      ]_vars

\* A on CPU 0 has recalled G while G was current on CPU 1: the IPI is
\* pending and the hypercall returns SUCCESS
C15_Witness ==
    /\ current[0] = "A" /\ kpc[0] = "ret_user_sysexit"
    /\ regs["A"].status = "SUCCESS"
    /\ current[1] = "G" /\ kpc[1] = "user" /\ "RECALL" \in hzd["G"]
    /\ 1 \in ipi

\* the hazards the return paths service through handle_hazard
Serviced == {"RCU", "SCHED", "RECALL", "STEP"}

\* the hazards the return path of CPU c samples in this step: those pending,
\* and HZD_SCHED when the step is the timer interrupt that sets it
Sampled(c) ==
    (Pending(c) \cup IF HzdTimer(c) THEN {"SCHED"} ELSE {}) \cap Serviced

\* C16: a step of the return path f (ret_user_sysexit or ret_user_iret) of
\* CPU c with current EC e samples cpu_hzd[c] \cup hzd[e] and
\*  - clears RCU if it is pending, whatever else is;
\*  - with SCHED pending sets cont[e] = f, goes to schedule and leaves RECALL
\*    and STEP of e as they are;
\*  - else with RECALL pending clears it, takes EXC_RECALL and leaves STEP;
\*  - else with STEP pending clears it and takes EXC_DB;
\*  - else enters user mode, with none of the four hazards pending.
\* While CPU c is at schedule no other step changes cont[e], and the
\* scheduler runs an EC on a return path only if that path is the EC's cont.
C16_HazardOrder ==
    [][\A c \in Cpus :
         LET e == current[c]
             f == IF ViaSysexit(c) THEN "ret_user_sysexit" ELSE "ret_user_iret"
             hz == Sampled(c)
         IN  /\ (ViaSysexit(c) \/ ViaIret(c) \/ HzdTimer(c))
                => /\ "RCU" \notin cpu_hzd'[c]
                   /\ IF "SCHED" \in hz
                      THEN /\ cont'[e] = f /\ kpc'[c] = "schedule"
                           /\ current'[c] = e /\ hzd' = hzd
                      ELSE IF "RECALL" \in hz
                      THEN /\ hzd'[e] = hzd[e] \ {"RECALL"}
                           /\ regs'[e].dst_portal = EXC_RECALL
                           /\ kpc'[c] = "send_msg_iret"
                      ELSE IF "STEP" \in hz
                      THEN /\ hzd'[e] = hzd[e] \ {"STEP"}
                           /\ regs'[e].dst_portal = EXC_DB
                           /\ kpc'[c] = "send_msg_iret"
                      ELSE /\ kpc'[c] = "user" /\ current'[c] = e
                           /\ (cpu_hzd'[c] \cup hzd'[e]) \cap Serviced = {}
             /\ (kpc[c] = "schedule" /\ kpc'[c] = "schedule")
                => cont'[e] = cont[e] /\ current'[c] = e
             /\ (Schedule(c) /\ kpc'[c] \in {"ret_user_sysexit", "ret_user_iret"})
                => cont[current'[c]] = kpc'[c]
      ]_vars

\* CPU 0 is at schedule with SCHED taken from ret_user_iret by A, whose
\* RECALL and STEP hazards wait; RCU is not pending any more
C16_Witness ==
    /\ kpc[0] = "schedule" /\ current[0] = "A" /\ cont["A"] = "ret_user_iret"
    /\ hzd["A"] = {"RECALL", "STEP"} /\ "RCU" \notin cpu_hzd[0]
    /\ "SCHED" \in cpu_hzd[0]

----------------------------------------------------------------------------
(* TLB shootdown *)

\* C17: when the wait of sys_revoke is over (it returns SUCCESS next) every
\* CPU it interrupted has taken the NMI, which incremented its counter, and
\* no CPU ever translates the page through a TLB entry of a PD whose
\* unmapping is complete.
C17_AsStated ==
    /\ \A c \in Cpus :
          (kpc[c] = "shootdown_wait" /\ shootdown_acked(State, c))
          => DOMAIN shoot[c].snap \cap nmi = {}
    /\ stale_use = {}

\* the PD a sys_revoke of the current EC of CPU c works on
RevokedPd(c, rem, sel) ==
    IF rem THEN cast_pd(Space_obj_lookup(State, sel)) ELSE EcPd(current[c])

C19_AsStated ==
    \A c \in Cpus : InUser(c) => <<c, EcPd(current[c])>> \notin owes

----------------------------------------------------------------------------
(* Platform control *)

\* the kernel state a failed hypercall of EC e with argument arg must leave
\* alone: continuations, linkage, vector-info and interrupt-remapping
\* entries, MSRs, page tables, and the register that carried arg
StateKept(e, arg) ==
    /\ cont' = cont /\ partner' = partner /\ rcap' = rcap
    /\ vector_info' = vector_info /\ irt' = irt /\ msr' = msr
    /\ hpt' = hpt /\ hzd' = hzd
    /\ regs'[e].res = arg

\* C20: a CONFIGURE_VECTOR, ASSIGN_IOAPIC_PIN, SUSPEND or MSR_ACCESS
\* hypercall that returns a status other than SUCCESS has changed no
\* continuation, no vector-info entry, no interrupt-remapping entry, no MSR
\* and not the register that carried its argument.
C20_AsStated ==
    [][\A c \in Cpus :
         LET e == current[c]
             failed == kpc'[c] = "ret_user_sysexit"
                       /\ regs'[e].status # "SUCCESS"
         IN  /\ \A cpu \in SysCpus, vector \in SysVectors, smsel \in SysSels,
                   kpsel \in SysSels, set_ok \in BOOLEAN :
                   (SysConfigureVector(c, cpu, vector, smsel, kpsel, set_ok)
                      /\ failed) => StateKept(e, 0)
             /\ \A cpu \in SysCpus, vector \in SysVectors, pin_ok \in BOOLEAN :
                   (SysAssignIoapicPin(c, cpu, vector, pin_ok) /\ failed)
                   => StateKept(e, 0)
             /\ \A arg \in Words, slept \in BOOLEAN :
                   (SysSuspend(c, arg, slept) /\ failed) => StateKept(e, arg)
             /\ \A arg \in Words, is_write \in BOOLEAN, index \in MsrIndexes :
                   (SysMsrAccess(c, arg, is_write, index) /\ failed)
                   => StateKept(e, arg)
      ]_vars

----------------------------------------------------------------------------
(* Object creation *)

\* the selector names a PD capability that carries PERM_OBJ_CREATION
ParentOk(pdsel) ==
    LET cap == Space_obj_lookup(State, pdsel)
    IN  cap.type = "PD" /\ "OBJ_CREATION" \in cap.perm

\* the selector names an EC capability with the permission, and the EC is
\* global (glb) or local (~glb)
EcOk(ecsel, perm, glb) ==
    LET cap == Space_obj_lookup(State, ecsel)
    IN  /\ cap.type = "EC" /\ perm \in cap.perm
        /\ (IF cap.ec \in Ecs THEN EcGlb(cap.ec) ELSE cap.glb) = glb

SelFree(sel) == Space_obj_lookup(State, sel) = NullCap /\ sel # Sel.null

PageOk(user_page) ==
    user_page < USER_ADDR /\ user_page % (PAGE_MASK + 1) = 0

\* the step installed a capability of this type at the selector
Installed(sel, type) ==
    /\ sel \in DOMAIN objs /\ objs[sel] = NullCap /\ objs'[sel].type = type

\* the step created no object and made no scheduling context ready
NothingCreated == objs' = objs /\ sc_refs' = sc_refs /\ ready' = ready

\* the status the hypercall of CPU c finished with, and its arguments
Status(c) == regs'[current[c]].status
Args(c) == regs'[current[c]].args

\* the step is this object-creation hypercall of the user on CPU c
Creates(c, op) == kpc[c] = "user" /\ kpc'[c] # "user" /\ Args(c).op = op

Creation(c, op, type, valid) ==
    Creates(c, op) =>
       /\ Installed(Args(c).sel, type) <=>
              (ParentOk(Args(c).pd) /\ SelFree(Args(c).sel) /\ valid)
       /\ Installed(Args(c).sel, type) \/ NothingCreated
       /\ (valid /\ ~ParentOk(Args(c).pd)) => Status(c) = "BAD_CAP"

\* the other arguments of a CREATE_EC, CREATE_SC, CREATE_PT are valid
EcArgsOk(a) == a.cpu \in Cpus /\ ~a.ftr /\ PageOk(a.user_page)
ScArgsOk(a) ==
    /\ EcOk(a.ec, "CREATE_SC", TRUE)
    /\ a.prio \in 1..(NUM_PRIORITIES - 1) /\ a.quantum # 0
PtArgsOk(a) == EcOk(a.ec, "CREATE_PT", FALSE)

\* CREATE_PD, CREATE_EC, CREATE_SC, CREATE_PT, CREATE_SM and CREATE_KP
\* create their object and install its capability if and only if the parent
\* selector holds a PD capability with PERM_OBJ_CREATION and the other
\* arguments are valid
SixCreate(c) ==
    /\ Creation(c, "CREATE_PD", "PD", TRUE)
    /\ Creates(c, "CREATE_EC") => Creation(c, "CREATE_EC", "EC", EcArgsOk(Args(c)))
    /\ Creates(c, "CREATE_SC") => Creation(c, "CREATE_SC", "SC", ScArgsOk(Args(c)))
    /\ Creates(c, "CREATE_PT") => Creation(c, "CREATE_PT", "PT", PtArgsOk(Args(c)))
    /\ Creation(c, "CREATE_SM", "SM", TRUE)
    /\ Creation(c, "CREATE_KP", "KP", TRUE)

\* C22 as stated: each of CREATE_PD, CREATE_EC, CREATE_SC, CREATE_PT,
\* CREATE_SM, CREATE_KP and CREATE_VCPU installs its object's capability at
\* the requested selector if and only if the parent selector holds a PD
\* capability with PERM_OBJ_CREATION and the other arguments are valid;
\* without that permission an otherwise valid call returns BAD_CAP, and a
\* call that installs nothing creates nothing.
C22_AsStated ==
    [][\A c \in Cpus :
          SixCreate(c) /\ Creation(c, "CREATE_VCPU", "VCPU", TRUE)]_vars

\* the ECs that portals and scheduling contexts are bound to
PtBound == {Pt_S.ec, Pt_T.ec, Pt_R.ec}
             \cup {objs[sel].pt.ec : sel \in {x \in DOMAIN objs :
                                                 objs[x].type = "PT"}}
ScBound == {ScEc(sc) : sc \in Scs}
             \cup {objs[sel].ec : sel \in {x \in DOMAIN objs :
                                              objs[x].type = "SC"}}

\* C25: every portal is bound to a local EC and every scheduling context to
\* a global EC, those that sys_create_pt and sys_create_sc made included; a
\* local EC is never the EC of the scheduling context it runs on: when it
\* is current, the CPU's scheduling context belongs to another, global EC.
C25_Binding ==
    /\ \A e \in PtBound : e \in Ecs /\ ~EcGlb(e)
    /\ \A e \in ScBound : e \in Ecs /\ EcGlb(e)
    /\ \A c \in Cpus :
          ~EcGlb(current[c]) =>
             /\ ScEc(sc_current[c]) # current[c]
             /\ EcGlb(ScEc(sc_current[c]))

\* a portal was created, and a local EC runs
C25_Witness ==
    /\ objs[Sel.free].type = "PT"
    /\ \E c \in Cpus : ~EcGlb(current[c]) /\ kpc[c] = "user"

----------------------------------------------------------------------------
(* System-call dispatch *)

\* the step is a system call of the user on CPU c
IsSyscall(c) ==
    kpc[c] = "user" /\ kpc'[c] # "user" /\ Args(c).op = "HC"

\* the call came from a PD without passthrough permission
NoPassthrough(c) == EcPd(current[c]) # "Pd_root"

\* the platform state: MSRs, interrupt routing, the suspend continuation
PlatformKept(c) ==
    /\ msr' = msr /\ irt' = irt /\ vector_info' = vector_info
    /\ cont' = cont /\ regs'[current[c]].res = 0

\* C23: a MACHINE_CTRL or IRQ_CTRL call of an EC whose PD has no
\* passthrough permission runs no sub-operation handler, whatever the
\* sub-operation and the arguments, and a PD_CTRL MSR_ACCESS call of such an
\* EC runs only sys_pd_ctrl_msr_access; each returns BAD_CAP and leaves
\* MSRs, vector-info and interrupt-remapping entries, continuations and the
\* result register as they were.
C23_Passthrough ==
    [][\A c \in Cpus :
          (IsSyscall(c) /\ NoPassthrough(c)) =>
             /\ Args(c).id \in {"HC_MACHINE_CTRL", "HC_IRQ_CTRL"} =>
                   /\ Status(c) = "BAD_CAP" /\ PlatformKept(c)
                   /\ ran'[c] = <<HandlerOf(Args(c).id)>>
             /\ (Args(c).id = "HC_PD_CTRL" /\ Args(c).sub = "MSR_ACCESS") =>
                   /\ Status(c) = "BAD_CAP" /\ PlatformKept(c)
                   /\ ran'[c] = <<"sys_pd_ctrl", "sys_pd_ctrl_msr_access">>
      ]_vars

\* an EC of a PD without passthrough permission has just been refused a
\* MACHINE_CTRL call with an unknown sub-operation
C23_Witness ==
    \E c \in Cpus :
       LET r == regs[current[c]]
       IN  /\ kpc[c] = "ret_user_sysexit" /\ EcPd(current[c]) # "Pd_root"
           /\ r.args.op = "HC" /\ r.args.id = "HC_MACHINE_CTRL"
           /\ r.args.sub = "OTHER" /\ r.status = "BAD_CAP"

\* the handlers a call with this id and sub-operation runs when no handler
\* returns: the handler of the id and, behind the passthrough check, the
\* handler of the sub-operation
OneHandler(c, id, sub) ==
    IF HandlerOf(id) = "" THEN <<>>
    ELSE IF SubHandlerOf(id, sub) = ""
            \/ (id \in {"HC_MACHINE_CTRL", "HC_IRQ_CTRL"} /\ NoPassthrough(c))
    THEN <<HandlerOf(id)>>
    ELSE <<HandlerOf(id), SubHandlerOf(id, sub)>>

----------------------------------------------------------------------------
(* Regions of a space *)

\* the indexes [addr, addr + size) of a region
Region(addr, size) == {(addr + i) % Word : i \in 0..(size - 1)}

\* the indexes the nodes of a tree cover
Covered(t) == UNION {Covers(n) : n \in t}

SeqSet(q) == {q[i] : i \in DOMAIN q}

\* the node has the largest order its base is aligned to and the remaining
\* size rem has room for
Greedy(n, rem) ==
    /\ n.node_order >= 0
    /\ n.node_base % 2^n.node_order = 0
    /\ 2^n.node_order <= rem
    /\ \A o \in 0..WordBits :
           n.node_base % 2^o = 0 /\ 2^o <= rem => o <= n.node_order

\* the step is a call of op by CPU c that ran to its end
RegCall(c, op) ==
    calls' = calls + 1 /\ sp'[c].pc = "done" /\ sp'[c].op = op

\* C26: for every addr and size the nodes addreg(addr, size, attr, type)
\* hands to Mdb::insert are pairwise disjoint, each covers 2^o indexes from a
\* base aligned to 2^o, and together they cover exactly [addr, addr + size);
\* they follow one another from addr, each of the largest order the
\* alignment of its base and the remaining size permit, and carry attr and
\* type; the loop ends; size = 0 inserts nothing; and where no node of the
\* tree overlapped the region, all of them are in the tree afterwards.
C26_Addreg ==
    [][\A c \in Cpus : RegCall(c, "addreg") =>
          LET r == sp'[c]
              ns == r.nodes
              t0 == tree[r.space]
              t1 == tree'[r.space]
          IN  /\ r.done
              /\ r.size = 0 => ns = <<>> /\ t1 = t0
              /\ \A i \in DOMAIN ns :
                     /\ ns[i].node_base =
                            IF i = 1 THEN r.addr
                            ELSE (ns[i - 1].node_base
                                  + 2^ns[i - 1].node_order) % Word
                     /\ Greedy(ns[i],
                               r.size - ((ns[i].node_base - r.addr) % Word))
                     /\ Cardinality(Covers(ns[i])) = 2^ns[i].node_order
                     /\ ns[i].node_attr = r.attr /\ ns[i].node_type = r.type
              /\ \A i, j \in DOMAIN ns :
                     i < j => Covers(ns[i]) \cap Covers(ns[j]) = {}
              /\ UNION {Covers(ns[i]) : i \in DOMAIN ns}
                     = Region(r.addr, r.size)
              /\ Region(r.addr, r.size) \cap Covered(t0) = {}
                     => t1 = t0 \cup SeqSet(ns)
              /\ \A x \in Spaces \ {r.space} : tree'[x] = tree[x]]_vars

\* C26 witness: addreg has added a region of three or more nodes, one of
\* them of order 2, to a tree that had nodes
C26_Witness ==
    \E c \in Cpus :
        /\ sp[c].pc = "done" /\ sp[c].op = "addreg"
        /\ sp[c].before # {}
        /\ Len(sp[c].nodes) >= 3
        /\ \E i \in DOMAIN sp[c].nodes : sp[c].nodes[i].node_order = 2
        /\ SeqSet(sp[c].nodes) \subseteq tree[sp[c].space]

\* C27: delreg(addr) removes the node that covers the page of addr and adds
\* nodes with its attributes and type that cover its range except that
\* page: afterwards a lookup of the page finds no node, a lookup of every
\* other index of the range finds a node, and the other nodes of the tree
\* are as before; if no node covers the page the tree is unchanged.
C27_Delreg ==
    [][\A c \in Cpus : RegCall(c, "delreg") =>
          LET r == sp'[c]
              idx == r.addr \div 2^PAGE_BITS
              t0 == tree[r.space]
              t1 == tree'[r.space]
              node == Mdb_lookup(t0, idx)
              added == t1 \ t0
          IN  IF node = NoNode THEN t1 = t0 /\ r.node = NoNode
              ELSE /\ r.node = node
                   /\ node \notin t1
                   /\ Mdb_lookup(t1, idx) = NoNode
                   /\ \A i \in Covers(node) \ {idx} :
                          Mdb_lookup(t1, i) \in added
                   /\ Covered(added) = Covers(node) \ {idx}
                   /\ \A n \in added : /\ n.node_attr = node.node_attr
                                       /\ n.node_type = node.node_type
                   /\ t1 \ added = t0 \ {node}]_vars

\* C27 witness: delreg has removed a page from the inside of a node of four
\* pages, and nodes below and above the page are in the tree
C27_Witness ==
    \E c \in Cpus :
        LET idx == sp[c].addr \div 2^PAGE_BITS
        IN  /\ sp[c].pc = "done" /\ sp[c].op = "delreg"
            /\ sp[c].node.node_order = 2
            /\ Mdb_lookup(tree[sp[c].space], idx) = NoNode
            /\ Mdb_lookup(tree[sp[c].space], idx - 1) # NoNode
            /\ Mdb_lookup(tree[sp[c].space], idx + 1) # NoNode

\* the step is delreg of the region of one page or more that the call
\* before it added with addreg, and no index of the region had a node before
\* that call
AddregDelreg(c) ==
    /\ sp[c].pc = "done" /\ sp[c].op = "addreg"
    /\ sp[c].size >= 1
    /\ Region(sp[c].addr, sp[c].size) \cap Covered(sp[c].before) = {}
    /\ RegCall(c, "delreg")
    /\ sp'[c].space = sp[c].space
    /\ sp'[c].addr = sp[c].addr * 2^PAGE_BITS

\* C28 as stated: for a region r not present in the space, addreg(r)
\* followed by delreg(r) leaves the tree as it was before the addreg
C28_AsStated ==
    [][\A c \in Cpus : AddregDelreg(c) =>
          tree'[sp[c].space] = sp[c].before]_vars

\* C28: for a region r of one page not present in the space, addreg(r)
\* followed by delreg(r) leaves the tree as it was before the addreg
C28_OnePage ==
    [][\A c \in Cpus : AddregDelreg(c) /\ sp[c].size = 1 =>
          tree'[sp[c].space] = sp[c].before]_vars

\* C28 witness: delreg has removed the page that the call before it had
\* added as a region of one page between the nodes of the tree
C28_Witness ==
    \E c \in Cpus :
        /\ sp[c].pc = "done" /\ sp[c].op = "delreg"
        /\ calls = 2
        /\ sp[c].node.node_order = 0
        /\ tree[sp[c].space] = sp[c].before \ {sp[c].node}
        /\ tree[sp[c].space] \in RegTrees \ {{}}

----------------------------------------------------------------------------
(* General protection faults *)

\* the step is the handling of a #GP on CPU c
GpTaken(c) ==
    /\ exc_regs'[c] # NoExc
    /\ exc_regs'[c].tog # exc_regs[c].tog
    /\ exc_regs'[c].vec = EXC_GP

\* what applies to the #GP: its rip is in the fixup table, the CPU has the TR
\* hazard, it was raised by the iretq of ret_user_iret
InFixupTable(c) == \E p \in FIXUP : p[1] = exc_regs'[c].at
TrHazard(c) == "TR" \in cpu_hzd[c]
OnIretToUser(c) == ~exc_regs'[c].user /\ exc_regs'[c].at = "iret_to_user"

\* TR hazard, TR limit and GDT of CPU c are left alone
TrGdtKept(c) ==
    /\ ("TR" \in cpu_hzd'[c]) = ("TR" \in cpu_hzd[c])
    /\ (c \in tr_limit') = (c \in tr_limit)
    /\ (c \in gdt_ko') = (c \in gdt_ko)

\* the outcomes: the frame resumes at the fixup address with the carry flag
\* set
Fixed(c) ==
    /\ ran'[c] = <<"fixup">>
    /\ exc_regs'[c].cf
    /\ <<exc_regs'[c].at, exc_regs'[c].rip>> \in FIXUP
    /\ TrGdtKept(c)

\* HZD_TR is cleared, the TSS loaded again, and the frame resumes where the
\* exception was raised
TssReloaded(c) ==
    /\ ran'[c] = <<"Tss::load">>
    /\ "TR" \notin cpu_hzd'[c] /\ c \notin tr_limit'
    /\ ~exc_regs'[c].cf /\ exc_regs'[c].rip = exc_regs'[c].at
    /\ (c \in gdt_ko') = (c \in gdt_ko)

\* the GDT is restored, the deferred NMI work done, and ret_user_iret runs
\* next
NmiWorkDone(c) ==
    /\ ran'[c] = <<"fixup_nmi_user_trap", "do_deferred_nmi_work",
                   "ret_user_iret">>
    /\ c \notin gdt_ko'
    /\ <<c, EcPd(current[c])>> \notin stale'
    /\ kpc'[c] = "ret_user_iret"
    /\ ~exc_regs'[c].cf
    /\ ("TR" \in cpu_hzd'[c]) = ("TR" \in cpu_hzd[c])
    /\ (c \in tr_limit') = (c \in tr_limit)

\* the fault is sent to the portal EXC_GP of the current EC
Delivered(c) ==
    /\ ran'[c] = <<"send_msg">>
    /\ exc_regs'[c].user
    /\ regs'[current[c]].dst_portal = EXC_GP
    /\ ~exc_regs'[c].cf
    /\ TrGdtKept(c)

\* C30 as stated: on a #GP the fixup table is tried first, the TR hazard
\* next, the NMI iret-to-user case after that, and if none applies the fault
\* is delivered through portal EXC_GP; exactly one of them happens
C30_AsStated ==
    [][\A c \in Cpus : GpTaken(c) =>
          IF InFixupTable(c) THEN Fixed(c)
          ELSE IF TrHazard(c) THEN TssReloaded(c)
          ELSE IF OnIretToUser(c) THEN NmiWorkDone(c)
          ELSE Delivered(c)]_vars

\* C30: on a #GP the NMI iret-to-user case is tried first, the fixup table
\* next, the TR hazard after that, and if none applies the fault is
\* delivered through portal EXC_GP; exactly one of them happens
C30_GpOrder ==
    [][\A c \in Cpus : GpTaken(c) =>
          IF OnIretToUser(c) THEN NmiWorkDone(c)
          ELSE IF InFixupTable(c) THEN Fixed(c)
          ELSE IF TrHazard(c) THEN TssReloaded(c)
          ELSE Delivered(c)]_vars

\* C30 witness: the #GP of the iretq of ret_user_iret was handled as the
\* NMI case on a CPU that has the TR hazard
C30_Witness ==
    \E c \in Cpus :
        /\ exc_regs[c].vec = EXC_GP /\ exc_regs[c].at = "iret_to_user"
        /\ ran[c] = <<"fixup_nmi_user_trap", "do_deferred_nmi_work",
                      "ret_user_iret">>
        /\ "TR" \in cpu_hzd[c] /\ c \in tr_limit
        /\ c \notin gdt_ko /\ kpc[c] = "ret_user_iret"

----------------------------------------------------------------------------
(* Locking of the spaces *)

\* CPU c is inside the block of a guard: between the step that took the lock
\* and the step that releases it
Guarded(c) == sp[c].pc \in {"locked", "remove", "mid", "unlock"}

\* the step looks up or changes the tree of space x on CPU c
Touches(c, x) ==
    /\ sp[c].space = x
    /\ \/ tree'[x] # tree[x] /\ sp'[c] # sp[c]
       \/ mid'[x] # mid[x] /\ sp'[c] # sp[c]
       \/ sp[c].pc = "locked" /\ sp'[c].pc \in {"remove", "unlock"}
          /\ sp[c].op \in {"tree_lookup", "delreg"} /\ sp[c].part = 0

\* C29: every lookup and every change of the tree of a space (tree_lookup,
\* tree_insert, tree_remove, addreg, the removal in delreg) is done by a CPU
\* that holds the spinlock of that space, so the operations on one space do
\* not overlap: no two CPUs are inside their guards for the same space, a
\* tree is in the middle of a change only under the lock, and no operation
\* looks at or changes a tree in the middle of another's insert or remove.
C29_Serialized ==
    /\ [](/\ \A c \in Cpus : Guarded(c) => lock[sp[c].space] = c
          /\ \A c1, c2 \in Cpus :
                 Guarded(c1) /\ Guarded(c2) /\ sp[c1].space = sp[c2].space
                     => c1 = c2
          /\ \A x \in Spaces : mid[x] # NoCpu => lock[x] = mid[x]
          /\ \A c \in Cpus : ~sp[c].torn)
    /\ [][\A x \in Spaces :
             /\ tree'[x] # tree[x] \/ mid'[x] # mid[x] => lock[x] # NoCpu
             /\ \A c \in Cpus : Touches(c, x) => lock[x] = c /\ lock'[x] = c]_vars

\* C29 witness: a CPU is in the middle of a change of a tree, and the other
\* CPU, which called tree_lookup for the same space, waits for the lock
C29_Witness ==
    \E c1, c2 \in Cpus :
        /\ sp[c1].pc = "mid" /\ lock[sp[c1].space] = c1
        /\ sp[c2].op = "tree_lookup" /\ sp[c2].pc = "lock"
        /\ sp[c2].space = sp[c1].space

----------------------------------------------------------------------------
(* Page faults and machine checks *)

\* the step is the handling of an exception of vector vec on CPU c
ExcTaken(c, vec) ==
    /\ exc_regs'[c] # NoExc
    /\ exc_regs'[c].tog # exc_regs[c].tog
    /\ exc_regs'[c].vec = vec

\* the exception is sent to the portal of its vector of the current EC
SentToPortal(c, vec) ==
    /\ ran'[c][Len(ran'[c])] = "send_msg"
    /\ regs'[current[c]].dst_portal = vec

\* the kernel goes on where the exception interrupted it, and no EC was
\* killed or linked to a handler
KernelResumed(c) ==
    /\ kpc'[c] = kpc[c] /\ current' = current
    /\ cont' = cont /\ partner' = partner /\ rcap' = rcap

\* the current EC is killed and the CPU goes on with another EC
CurrentKilled(c) ==
    /\ ran'[c][Len(ran'[c])] = "die"
    /\ cont'[current[c]] = "dead"
    /\ kpc'[c] # "panic"

\* C31 as stated: a #PF taken in user mode is sent to the portal EXC_PF of
\* the EC; a #PF of the kernel at an address of the OBJ space is resolved by
\* Space_obj::page_fault and the kernel resumes; every other #PF of the
\* kernel panics the CPU
C31_AsStated ==
    [][\A c \in Cpus : ExcTaken(c, EXC_PF) =>
          IF exc_regs'[c].user
          THEN ran'[c] = <<"send_msg">> /\ SentToPortal(c, EXC_PF)
          ELSE IF exc_regs'[c].obj
          THEN ran'[c] = <<"Space_obj::page_fault">> /\ KernelResumed(c)
          ELSE kpc'[c] = "panic"]_vars

\* what the code does on a #PF: as C31 for the fault in user mode and the
\* fault in the OBJ space; every other #PF of the kernel kills the current
\* EC
PfOutcome ==
    [][\A c \in Cpus : ExcTaken(c, EXC_PF) =>
          IF exc_regs'[c].user
          THEN ran'[c] = <<"send_msg">> /\ SentToPortal(c, EXC_PF)
          ELSE IF exc_regs'[c].obj
          THEN ran'[c] = <<"Space_obj::page_fault">> /\ KernelResumed(c)
          ELSE ran'[c] = <<"die">> /\ CurrentKilled(c)]_vars

\* C32 as stated: on a #MC the kernel calls Mca::vector and returns to what
\* was interrupted: the interrupted EC is not killed and no exception
\* message is sent for it
C32_AsStated ==
    [][\A c \in Cpus : ExcTaken(c, EXC_MC) =>
          /\ ran'[c] = <<"Mca::vector">>
          /\ cont' = cont /\ partner' = partner /\ rcap' = rcap
          /\ current' = current
          /\ kpc'[c] = IF exc_regs'[c].user THEN "ret_user_iret"
                       ELSE kpc[c]]_vars

\* what the code does on a #MC: after Mca::vector the exception is sent to
\* the portal EXC_MC of the EC when it was taken in user mode, and the
\* current EC is killed when it was taken in the kernel
McOutcome ==
    [][\A c \in Cpus : ExcTaken(c, EXC_MC) =>
          IF exc_regs'[c].user
          THEN ran'[c] = <<"Mca::vector", "send_msg">>
               /\ SentToPortal(c, EXC_MC)
          ELSE ran'[c] = <<"Mca::vector", "die">> /\ CurrentKilled(c)]_vars

----------------------------------------------------------------------------
(* NMIs *)

\* the step is CPU c taking its NMI
NmiTaken(c) == c \in nmi /\ c \notin nmi'

\* the stale bit of CPU c for its current PD, and the TLB entries of the
\* PD with it, are gone after the step
Flushed(c) ==
    LET b == <<c, EcPd(current[c])>>
    IN  /\ b \notin stale' /\ stale' = stale \ {b}
        /\ tlb' = IF b \in stale THEN tlb \ {b} ELSE tlb

\* C33: every NMI a CPU takes, in user mode, in the kernel or at the hlt of
\* the idle loop, adds exactly one to the shootdown counter of that CPU
\* (a 16-bit word) and to no other; the handler takes no lock of a space;
\* it flushes the stale TLB itself exactly when the NMI interrupted user
\* mode, and leaves stale bits and TLB alone otherwise
C33_NmiWork ==
    [][\A c \in Cpus : NmiTaken(c) =>
          /\ ack'[c] = (ack[c] + 1) % 65536
          /\ \A d \in Cpus \ {c} : ack'[d] = ack[d]
          /\ lock' = lock /\ mid' = mid
          /\ IF kpc[c] = "user" THEN Flushed(c) /\ kpc'[c] = "user"
             ELSE stale' = stale /\ tlb' = tlb /\ c \in gdt_ko']_vars

\* C33 witness: R ran user code on CPU 1 when the NMI of A's revocation
\* arrived: the counter has moved, the stale bit is cleared, and the GDT is
\* the full one, which an NMI taken in the kernel would have replaced
C33_Witness ==
    /\ kpc[0] = "shootdown_wait" /\ entries = 1
    /\ kpc[1] = "user" /\ current[1] = "R"
    /\ ack[1] = 1 /\ 1 \notin nmi /\ 1 \notin gdt_ko
    /\ <<1, "Pd_root">> \notin stale /\ "Pd_root" \notin hpt
    /\ <<1, "Pd_root">> \notin tlb

\* a hazard the idle loop services is pending on CPU c
IdleHazard(c) == cpu_hzd[c] \cap {"RCU", "SCHED"} # {}

\* C34: no CPU sleeps in the hlt of the idle loop while HZD_RCU or
\* HZD_SCHED is pending; no CPU is at the hlt with interrupts enabled other
\* than by the sti before it; and an NMI taken with the rip at the hlt
\* resumes behind the hlt, at the next check of the hazards
C34_IdleSleep ==
    /\ [](\A c \in Cpus : kpc[c] = "hlt" => ~IdleHazard(c))
    /\ [](\A c \in Cpus : kpc[c] # "hlt_open")
    /\ [][\A c \in Cpus : (NmiTaken(c) /\ kpc[c] = "idle_hlt")
                             => kpc'[c] = "idle"]_vars

\* C34 witness: a CPU whose NMI arrived between the sti and the hlt has
\* since slept, was woken by an interrupt, and is about to check the hazard
\* the interrupt raised
C34_Witness ==
    \E c \in Cpus :
       /\ ran[c] = <<"rip += 1">> /\ c \in gdt_ko /\ ack[c] > 0
       /\ kpc[c] = "idle" /\ IdleHazard(c)

----------------------------------------------------------------------------
(* Data segment hazard *)

DsEs(h) == "DS_ES" \in h

\* C35 as stated: the return path ret_user_sysexit enters user mode only
\* with HZD_DS_ES serviced, and services it after the hazards RCU, SCHED,
\* RECALL and STEP: a step of the path that does not enter user mode
\* leaves it pending; the return path ret_user_iret never changes it
C35_AsStated ==
    [][\A c \in Cpus :
          /\ Ret_user_sysexit(c) =>
                IF kpc'[c] = "user" THEN ~DsEs(cpu_hzd'[c])
                ELSE DsEs(cpu_hzd'[c]) = DsEs(cpu_hzd[c])
          /\ Ret_user_iret(c) => DsEs(cpu_hzd'[c]) = DsEs(cpu_hzd[c])]_vars

\* what the code does: no step of the kernel clears HZD_DS_ES
DsEsStays ==
    [][\A c \in Cpus : DsEs(cpu_hzd[c]) => DsEs(cpu_hzd'[c])]_vars

----------------------------------------------------------------------------
(* Partner chains *)

\* the partner links of EC e: their number, and the EC they end at
Links(e) == chain_len(partner, e, Cardinality(Ecs))
LastOf(e) == chain_end(partner, e, Cardinality(Ecs))

\* the partner links form disjoint simple chains: no EC is the partner of
\* two ECs, a partner has its caller as rcap, and following the links from
\* any EC ends, after fewer links than there are ECs, at an EC without
\* partner
SimpleChains ==
    /\ \A e1, e2 \in Ecs :
          (e1 # e2 /\ partner[e1] # NIL) => partner[e1] # partner[e2]
    /\ \A e \in Ecs : partner[e] # NIL => rcap[partner[e]] = e
    /\ \A e \in Ecs :
          /\ Links(e) >= 0 /\ Links(e) < Cardinality(Ecs)
          /\ partner[LastOf(e)] = NIL
    /\ \A c \in Cpus : kpc[c] # "activate_loop"

\* a link is created only to an EC without continuation
LinkedWhenFree ==
    \A e \in Ecs :
       (partner'[e] # NIL /\ partner'[e] # partner[e])
       => cont[partner'[e]] = "nil" /\ partner[e] = NIL

\* the scheduler's activate of the EC of the scheduling context it picked:
\* the link counter is the number of links of that EC, and the EC at their
\* end is the one that runs, unless it is blocked
ActivateWalks(c) ==
    LET o == ScEc(sc_current'[c])
    IN  /\ partner' = partner
        /\ ctr_link'[c] = Links(o)
        /\ kpc'[c] # "schedule_suspend" => current'[c] = LastOf(o)

\* C36: in every reachable state the partner links form disjoint simple
\* chains (no EC is the partner of two ECs, C.partner = S implies
\* S.rcap = C, no cycle); a link to S is created only when S.cont = nil;
\* the walk of activate ends at an EC without partner and sets the link
\* counter to the number of links it walked
C36_PartnerChains ==
    /\ []SimpleChains
    /\ [][LinkedWhenFree]_vars
    /\ [][\A c \in Cpus : Schedule(c) => ActivateWalks(c)]_vars

\* C36 witness: the scheduler has walked the chain of A, served by S, which
\* is served by T: two links, and T runs
C36_Witness ==
    /\ partner["A"] = "S" /\ partner["S"] = "T" /\ partner["T"] = NIL
    /\ sc_current[0] = "SC_A" /\ ctr_link[0] = 2 /\ current[0] = "T"
    /\ entries > 2

----------------------------------------------------------------------------
(* Passthrough *)

\* the passthrough flag of the PD the capability at a selector names
HasFlag(sel) == parent_is_passthrough(Space_obj_lookup(State, sel))

\* sys_create_pd of the user on CPU c created a PD
CreatedPd(c) ==
    /\ Creates(c, "CREATE_PD") /\ Installed(Args(c).sel, "PD")

\* C37: a PD that sys_create_pd creates has the passthrough flag if and
\* only if the request asks for it and the PD the parent-PD capability
\* names has the flag, whatever the flag of the PD of the calling EC; no
\* step changes the flag of a PD that exists
C37_Passthrough ==
    /\ [][\A c \in Cpus :
             CreatedPd(c) =>
                (objs'[Args(c).sel].is_passthrough
                    <=> (Args(c).passthrough /\ HasFlag(Args(c).pd)))]_vars
    /\ [][\A sel \in DOMAIN objs :
             objs[sel].type = "PD" => objs'[sel] = objs[sel]]_vars

\* C37 witness: G, whose PD lacks the flag, has created a passthrough PD
\* from the root PD, and A, whose PD has the flag, has asked for a
\* passthrough PD from Pd_c and got a PD without the flag
C37_Witness ==
    /\ regs["G"].args = [op |-> "CREATE_PD", sel |-> Sel.free,
                         pd |-> Sel.pd_root, passthrough |-> TRUE]
    /\ regs["G"].status = "SUCCESS" /\ ~is_passthrough(EcPd("G"))
    /\ objs[Sel.free].type = "PD" /\ objs[Sel.free].is_passthrough
    /\ regs["A"].args = [op |-> "CREATE_PD", sel |-> Sel.free2,
                         pd |-> Sel.pd_c, passthrough |-> TRUE]
    /\ regs["A"].status = "SUCCESS" /\ is_passthrough(EcPd("A"))
    /\ objs[Sel.free2].type = "PD" /\ ~objs[Sel.free2].is_passthrough

----------------------------------------------------------------------------
(* Scheduling contexts *)

\* the priority and the quantum sys_create_sc accepts
QpdOk(a) == a.prio > 0 /\ a.prio < NUM_PRIORITIES /\ a.quantum # 0

\* the step created a scheduling context at the selector and made it ready
\* once, on the CPU of the EC the capability at ecsel names, and on no other
ScEnqueued(sel, ecsel) ==
    LET cpu == EcCpu(Space_obj_lookup(State, ecsel).ec)
        sc == objs'[sel].sc
    IN  /\ Installed(sel, "SC") /\ sc_refs[sc] = 0 /\ sc_refs'[sc] > 0
        /\ ready' = [ready EXCEPT ![cpu] = Append(@, sc)]
        /\ \A x \in Cpus : \A i \in 1..Len(ready[x]) : ready[x][i] # sc

\* sys_create_sc creates and enqueues only with an accepted priority and
\* quantum, and then once and on the CPU of the EC
ScOnlyWithQpd(c) ==
    Creates(c, "CREATE_SC") =>
       /\ (objs' # objs \/ ready' # ready \/ sc_refs' # sc_refs)
          => QpdOk(Args(c)) /\ ScEnqueued(Args(c).sel, Args(c).ec)
       /\ Status(c) = "SUCCESS" => ScEnqueued(Args(c).sel, Args(c).ec)
       /\ ~QpdOk(Args(c)) => NothingCreated /\ Status(c) # "SUCCESS"

\* C38 as stated: sys_create_sc creates an SC and enqueues it, once and on
\* the CPU of its EC, only for a priority p with 0 < p < NUM_PRIORITIES and
\* a quantum other than 0; every call with another priority or quantum 0
\* returns BAD_PAR, creates no SC and enqueues nothing
C38_AsStated ==
    [][\A c \in Cpus :
          /\ ScOnlyWithQpd(c)
          /\ (Creates(c, "CREATE_SC") /\ ~QpdOk(Args(c)))
             => Status(c) = "BAD_PAR"]_vars

\* C38: sys_create_sc creates an SC and enqueues it, once and on the CPU of
\* its EC, only for a priority p with 0 < p < NUM_PRIORITIES and a quantum
\* other than 0; a call with another priority or quantum 0 creates no SC,
\* enqueues nothing, and returns BAD_PAR when its PD capability has
\* PERM_OBJ_CREATION and its EC capability names a global EC with
\* PERM_CREATE_SC, and BAD_CAP otherwise
C38_CreateSc ==
    [][\A c \in Cpus :
          /\ ScOnlyWithQpd(c)
          /\ (Creates(c, "CREATE_SC") /\ ~QpdOk(Args(c)))
             => Status(c) =
                   IF ParentOk(Args(c).pd) /\ EcOk(Args(c).ec, "CREATE_SC", TRUE)
                   THEN "BAD_PAR" ELSE "BAD_CAP"]_vars

\* C38 witness: A on CPU 0 has created the scheduling context of G, which
\* is ready once on CPU 1, the CPU of G, and not on CPU 0
C38_Witness ==
    /\ regs["A"].args.op = "CREATE_SC" /\ regs["A"].status = "SUCCESS"
    /\ QpdOk(regs["A"].args) /\ kpc[0] = "ret_user_sysexit"
    /\ objs[Sel.free].type = "SC" /\ EcCpu(objs[Sel.free].ec) = 1
    /\ ready[1] = <<"SC_G">> /\ \A i \in 1..Len(ready[0]) : ready[0][i] # "SC_G"

----------------------------------------------------------------------------
(* Occupied destination selectors *)

\* the selector holds a capability
Occupied(sel) == Space_obj_lookup(State, sel) # NullCap

\* the step changed no capability, made no scheduling context and none
\* ready, sent no rescheduling IPI and added no mapping to a page table
NothingLeft(c) ==
    /\ objs' = objs /\ revoked' = revoked
    /\ sc_refs' = sc_refs /\ ready' = ready /\ ipi' = ipi
    /\ \A x \in Cpus \ {c} : cpu_hzd'[x] = cpu_hzd[x]
    /\ hpt' \subseteq hpt

\* a create hypercall that constructs its object (its other arguments are
\* valid) for an occupied selector
Rejects(c, op, valid) ==
    (Creates(c, op) /\ ParentOk(Args(c).pd) /\ valid /\ Occupied(Args(c).sel))
    => Status(c) = "BAD_CAP" /\ NothingLeft(c)

----------------------------------------------------------------------------
(* The window of delreg *)

\* CPU c executes a delreg that found a node
InDelreg(c) == sp[c].op = "delreg" /\ sp[c].node # NoNode

\* CPU c is between the removal of delreg and the end of its second addreg
InWindow(c) ==
    /\ InDelreg(c) /\ sp[c].pc # "done"
    /\ sp[c].part \in {1, 2} \/ sp[c].pc = "unlock"

\* the indexes of the removed node's range other than the page of delreg
OtherIdxs(c) == Covers(sp[c].node) \ {sp[c].idx}

\* delreg takes the lock three times: the guard of the lookup and the
\* removal is released before the first addreg, and each addreg begins by
\* taking the lock
ThreeGuards(c) ==
    LET x == sp[c].space
    IN  (sp[c].op = "delreg" /\ sp[c].pc # "done" /\ sp'[c].part # sp[c].part)
        => /\ lock[x] = c /\ lock'[x] = NoCpu
           /\ sp'[c].pc = "lock" /\ sp'[c].part = sp[c].part + 1

\* the removal leaves no node for any index of the range
RemovalUncovers(c) ==
    (InDelreg(c) /\ sp[c].part = 0 /\ sp[c].pc = "mid" /\ sp'[c].pc # "mid")
    => \A i \in Covers(sp[c].node) : Mdb_lookup(tree'[sp[c].space], i) = NoNode

\* when delreg returns there is a node for every other index of the range
ReturnCovers(c) ==
    (InDelreg(c) /\ sp[c].pc # "done" /\ sp'[c].pc = "done")
    => /\ sp[c].part = 2
       /\ \A i \in OtherIdxs(c) : Mdb_lookup(tree'[sp[c].space], i) # NoNode

\* C40: delreg holds the lock of the space while it looks up and removes
\* the node and releases it; the two parts of the range are added by two
\* later calls of addreg, each under a lock of its own.  The removal leaves
\* every index of the node's range without a node, and nothing holds the
\* lock until the second addreg has ended, so that a tree_lookup of another
\* CPU can run in between; when delreg returns, every index of the range
\* other than the page has a node.
C40_DelregWindow ==
    /\ [](\A c \in Cpus :
            (InDelreg(c) /\ sp[c].pc \in {"lock", "done"})
               => lock[sp[c].space] # c)
    /\ [][\A c \in Cpus :
             ThreeGuards(c) /\ RemovalUncovers(c) /\ ReturnCovers(c)]_vars

\* C40 witness: CPU c1 is between the removal and the end of the second
\* addreg of its delreg; CPU c2, which holds the lock, has just looked up
\* another index of the removed node's range in the same space and found
\* no node
C40_Witness ==
    \E c1, c2 \in Cpus :
        /\ InWindow(c1) /\ sp[c1].pc = "lock"
        /\ sp[c2].op = "tree_lookup" /\ sp[c2].pc = "unlock"
        /\ sp[c2].space = sp[c1].space /\ lock[sp[c2].space] = c2
        /\ sp[c2].idx \in OtherIdxs(c1) /\ sp[c2].node = NoNode

====
